---- MODULE Spec2Model ----
(***************************************************************************)
(* TubeFetch: credential issuance, verification and rate limiting          *)
(* (server/auth.ts, server/routes.ts, shared/schema.ts).                   *)
(*                                                                         *)
(* Strings are sequences of one-character strings, so that startsWith,     *)
(* split and the hex encoding are computed as the code computes them.      *)
(* Time is counted in minutes.                                             *)
(***************************************************************************)
EXTENDS Integers, Sequences, FiniteSets, TLC

VARIABLES
    apiKeys,      \* table api_keys: a set of rows
    nextKeyId,    \* the serial behind api_keys.id
    apiUsage,     \* table api_usage: a sequence of rows, in insertion order
    now,          \* Date.now(), in minutes
    ADMIN_TOKEN,  \* process.env.ADMIN_TOKEN
    req,          \* the requests in flight through the API-key middleware, by slot
    admin,        \* the last request to a key management route and its response
    issued        \* the credentials the 201 responses of POST /api/keys have carried

vars == <<apiKeys, nextKeyId, apiUsage, now, ADMIN_TOKEN, req, admin, issued>>

(***************************************************************************)
(* Bounds of the model.  The three lengths are 16, 32 and 32 bytes in the  *)
(* code (server/auth.ts:22-24); the model keeps the encodings and shortens *)
(* the strings.                                                            *)
(***************************************************************************)
MaxKeys == 1        \* values drawn from the serial of api_keys.id
MaxUsage == 3       \* rows of api_usage at any one time
MaxTicks == 2       \* steps of the clock
TickMinutes == 30   \* minutes per step of the clock
KeyIdBytes == 1     \* bytes of a keyId
SecretBytes == 2    \* bytes of a secret
DigestBytes == 2    \* bytes of a digest

(***************************************************************************)
(* Program constants.                                                      *)
(***************************************************************************)
WindowMinutes == 60
DayMinutes == 1440
DefaultRateLimit == 100

NULL == [null |-> TRUE]

(***************************************************************************)
(* Strings.                                                                *)
(***************************************************************************)
\* String.prototype.startsWith
StartsWith(s, p) == Len(s) >= Len(p) /\ SubSeq(s, 1, Len(p)) = p

\* String.prototype.split with a one-character separator: the pieces between
\* the separators, empty pieces included.
Split(s, sep) ==
    LET at == {i \in 1..Len(s) : s[i] = sep}
        n == Cardinality(at)
        \* the position of the k-th separator; 0 before the string, Len(s)+1 after
        Pos(k) == IF k = 0 THEN 0
                  ELSE IF k = n + 1 THEN Len(s) + 1
                  ELSE CHOOSE i \in at : Cardinality({j \in at : j < i}) = k - 1
    IN  [k \in 1..(n + 1) |-> SubSeq(s, Pos(k - 1) + 1, Pos(k) - 1)]

(***************************************************************************)
(* Bytes, hex and the digest.                                              *)
(***************************************************************************)
HexDigits == <<"0","1","2","3","4","5","6","7","8","9","a","b","c","d","e","f">>

\* The characters the model's strings are written in, with their codes.
Alphabet == HexDigits \o <<"_", "y", "t", "g", "r", "x", " ", "B", "A", "F">>

Code(c) == CHOOSE i \in 1..Len(Alphabet) : Alphabet[i] = c

\* Buffer.prototype.toString("hex"): two lower-case hex digits per byte.
ToHex(bytes) ==
    [i \in 1..(2 * Len(bytes)) |->
        IF i % 2 = 1 THEN HexDigits[(bytes[(i + 1) \div 2] \div 16) + 1]
        ELSE HexDigits[(bytes[i \div 2] % 16) + 1]]

HexValue(c) ==
    IF \E i \in 1..16 : HexDigits[i] = c
    THEN (CHOOSE i \in 1..16 : HexDigits[i] = c) - 1
    ELSE -1

\* Buffer.from(s, "hex"): one byte per pair of hex digits, up to the first pair
\* that is not one.
FromHex(s) ==
    LET pairs == Len(s) \div 2
        bad == {k \in 1..pairs : HexValue(s[2 * k - 1]) < 0 \/ HexValue(s[2 * k]) < 0}
        n == IF bad = {} THEN pairs
             ELSE (CHOOSE k \in bad : \A j \in bad : k <= j) - 1
    IN  [k \in 1..n |-> HexValue(s[2 * k - 1]) * 16 + HexValue(s[2 * k])]

\* crypto.randomBytes(n): a sample of the byte strings it can return.
ByteSamples == {95, 171}

randomBytes(n) == {[i \in 1..n |-> b] : b \in ByteSamples}

RECURSIVE CodeSumOf(_, _, _)
CodeSumOf(s, lo, hi) ==
    IF lo > hi THEN 0
    ELSE IF lo = hi THEN Code(s[lo])
    ELSE LET mid == (lo + hi) \div 2
         IN  CodeSumOf(s, lo, mid) + CodeSumOf(s, mid + 1, hi)

CodeSum(s) == CodeSumOf(s, 1, Len(s))

\* createHash("sha256").update(s).digest("hex"): a deterministic digest of fixed
\* length in lower-case hex digits.  The stand-in is a checksum, so distinct
\* inputs can share a digest, as SHA-256 inputs in principle can.
Sha256Hex(s) ==
    LET h == (CodeSum(s) + 7 * Len(s)) % 256
    IN  ToHex([i \in 1..DigestBytes |-> (h + i) % 256])

\* crypto.timingSafeEqual: throws on buffers of different length.
timingSafeEqual(a, b) ==
    IF Len(a) # Len(b) THEN "throw" ELSE IF a = b THEN "true" ELSE "false"

(***************************************************************************)
(* server/auth.ts: generateApiKey, parseApiKey.                            *)
(***************************************************************************)
Composite(keyId, secret) == <<"y", "t", "_">> \o keyId \o <<"_">> \o secret

generateApiKeyHashesComposite(idBytes, secretBytes) ==
    LET keyId == ToHex(idBytes)
        keySecret == ToHex(secretBytes)
    IN  [keyId |-> keyId, keySecret |-> Composite(keyId, keySecret),
         keyHash |-> Sha256Hex(Composite(keyId, keySecret))]

\* generateApiKey(), with the two results of randomBytes as its arguments.
generateApiKey(idBytes, secretBytes) ==
    LET keyId == ToHex(idBytes)
        keySecret == ToHex(secretBytes)
    IN  [keyId |-> keyId, keySecret |-> Composite(keyId, keySecret),
         keyHash |-> Sha256Hex(keySecret)]

parseApiKeyAtLeastThreeParts(apiKey) ==
    IF ~StartsWith(apiKey, <<"y", "t", "_">>) THEN NULL
    ELSE LET parts == Split(apiKey, "_")
         IN  IF Len(parts) < 3 THEN NULL
             ELSE [keyId |-> parts[2], keySecret |-> parts[3]]

parseApiKey(apiKey) ==
    IF ~StartsWith(apiKey, <<"y", "t", "_">>) THEN NULL
    ELSE LET parts == Split(apiKey, "_")
         IN  IF Len(parts) # 3 THEN NULL
             ELSE [keyId |-> parts[2], keySecret |-> parts[3]]

(***************************************************************************)
(* server/auth.ts: verifyApiKey, checkRateLimit.  dbThrows says whether    *)
(* the store raises on the query.                                          *)
(***************************************************************************)
verifyApiKeyNoActiveFilter(keys, keyId, keySecret, dbThrows) ==
    IF dbThrows THEN NULL
    ELSE LET rows == {k \in keys : k.key_id = keyId}
         IN  IF rows = {} THEN NULL
             ELSE LET apiKey == CHOOSE k \in rows : TRUE
                  IN  IF timingSafeEqual(FromHex(apiKey.key_hash),
                                         FromHex(Sha256Hex(keySecret))) = "true"
                      THEN apiKey ELSE NULL

verifyApiKeyFailOpen(keys, keyId, keySecret, dbThrows) ==
    LET rows == {k \in keys : k.key_id = keyId /\ k.is_active}
    IN  IF rows = {} THEN NULL
        ELSE LET apiKey == CHOOSE k \in rows : TRUE
             IN  IF dbThrows THEN apiKey
                 ELSE IF timingSafeEqual(FromHex(apiKey.key_hash),
                                         FromHex(Sha256Hex(keySecret))) = "true"
                 THEN apiKey ELSE NULL

verifyApiKeyByDigest(keys, keyId, keySecret, dbThrows) ==
    IF dbThrows THEN NULL
    ELSE LET rows == {k \in keys :
                         /\ k.is_active
                         /\ timingSafeEqual(FromHex(k.key_hash),
                                            FromHex(Sha256Hex(keySecret))) = "true"}
         IN  IF rows = {} THEN NULL ELSE CHOOSE k \in rows : TRUE

verifyApiKey(keys, keyId, keySecret, dbThrows) ==
    IF dbThrows THEN NULL                                   \* catch: return null
    ELSE LET rows == {k \in keys : k.key_id = keyId /\ k.is_active}
         IN  IF rows = {} THEN NULL
             ELSE LET apiKey == CHOOSE k \in rows : TRUE    \* key_id is unique
                  IN  IF timingSafeEqual(FromHex(apiKey.key_hash),
                                         FromHex(Sha256Hex(keySecret))) = "true"
                      THEN apiKey
                      ELSE NULL                             \* false, or the throw caught

\* select count(*) from api_usage where api_key_id = .. and request_timestamp >= ..
countUsageSince(usage, apiKeyId, since) ==
    Cardinality({i \in 1..Len(usage) :
        usage[i].api_key_id = apiKeyId /\ usage[i].request_timestamp >= since})

checkRateLimitInclusive(usage, t, apiKeyId, rateLimit, dbThrows) ==
    IF dbThrows THEN FALSE
    ELSE countUsageSince(usage, apiKeyId, t - WindowMinutes) <= rateLimit

checkRateLimitAllKeys(usage, t, apiKeyId, rateLimit, dbThrows) ==
    IF dbThrows THEN FALSE
    ELSE Cardinality({i \in 1..Len(usage) :
             usage[i].request_timestamp >= t - WindowMinutes}) < rateLimit

checkRateLimitCountsInFlight(usage, t, apiKeyId, rateLimit, dbThrows) ==
    IF dbThrows THEN FALSE
    ELSE countUsageSince(usage, apiKeyId, t - WindowMinutes)
         + Cardinality({r \in DOMAIN req : /\ req[r].pc \in {"handler", "log"}
                                           /\ req[r].apiKey # NULL
                                           /\ req[r].apiKey.id = apiKeyId})
         < rateLimit

checkRateLimitCalendarHour(usage, t, apiKeyId, rateLimit, dbThrows) ==
    IF dbThrows THEN FALSE
    ELSE LET Hour(m) == (m + DayMinutes) \div WindowMinutes
             inHour == {i \in DOMAIN usage :
                           /\ usage[i].api_key_id = apiKeyId
                           /\ Hour(usage[i].request_timestamp) = Hour(t)}
         IN  Cardinality(inHour) < rateLimit

checkRateLimit(usage, t, apiKeyId, rateLimit, dbThrows) ==
    IF dbThrows THEN FALSE                                  \* catch: return false
    ELSE LET oneHourAgo == t - WindowMinutes
         IN  countUsageSince(usage, apiKeyId, oneHourAgo) < rateLimit

(***************************************************************************)
(* Optional values (a header, a body field): <<>> when absent, <<v>> when  *)
(* present.  A string is falsy in JavaScript when undefined or empty.      *)
(***************************************************************************)
Absent == <<>>
Some(v) == <<v>>

Falsy(opt) == opt = Absent \/ opt[1] = <<>>

Msg(text) == [text |-> text, limit |-> 0]

\* `Rate limit exceeded. Maximum ${n} requests per hour.`
RateLimitMsg(n) == [text |-> "Rate limit exceeded. Maximum ${rate_limit_per_hour} requests per hour.",
                    limit |-> n]

NoResponse == [status |-> 0, error |-> Msg("")]

Response(status, error) == [status |-> status, error |-> error]

\* The fields the middleware copies from the verified row into req.apiKey.
Identity(k) == [id |-> k.id, key_id |-> k.key_id, name |-> k.name,
                rate_limit_per_hour |-> k.rate_limit_per_hour]

(***************************************************************************)
(* The requests through authenticateApiKey ("required") and through        *)
(* optionalAuthentication in front of the two analyze routes.              *)
(***************************************************************************)
Reqs == {1, 2}

Routes == {"required", "analyze", "playlist"}

IdleReq == [pc |-> "idle", route |-> "required", header |-> Absent,
            verifiedKey |-> NULL, apiKey |-> NULL, res |-> NoResponse,
            nextCalls |-> 0, dbOps |-> <<>>, pending |-> NoResponse,
            body |-> "none"]

DbOp(op, ok) == [op |-> op, ok |-> ok]

\* res.status(..).json(..); return
Reject(rq, status, error) ==
    [rq EXCEPT !.pc = "done", !.res = Response(status, error)]

\* next(): the route handler runs.  No route of routes.ts mounts
\* authenticateApiKey, so a "required" request ends where next() is called.
CallNext(rq) ==
    [rq EXCEPT !.pc = IF rq.route = "required" THEN "done" ELSE "handler",
               !.nextCalls = rq.nextCalls + 1]

\* authenticateApiKey, up to its first await.
authenticateApiKeyStart(rq) ==
    IF Falsy(rq.header)
    THEN Reject(rq, 401, Msg("API key required. Include 'X-API-Key' header with your request."))
    ELSE IF parseApiKey(rq.header[1]) = NULL
    THEN Reject(rq, 401, Msg("Invalid API key format"))
    ELSE [rq EXCEPT !.pc = "verify"]

authenticateApiKeyVerifiedFallsThrough(rq, verifiedKey) ==
    IF verifiedKey = NULL THEN CallNext(rq)
    ELSE [rq EXCEPT !.pc = "quota", !.verifiedKey = verifiedKey]

\* authenticateApiKey, from the return of verifyApiKey to its next await.
authenticateApiKeyVerified(rq, verifiedKey) ==
    IF verifiedKey = NULL
    THEN Reject(rq, 401, Msg("Invalid or inactive API key"))
    ELSE [rq EXCEPT !.pc = "quota", !.verifiedKey = verifiedKey]

authenticateApiKeyCheckedNoReturn(rq, hasCapacity) ==
    IF ~hasCapacity
    THEN CallNext(Reject(rq, 429, RateLimitMsg(rq.verifiedKey.rate_limit_per_hour)))
    ELSE CallNext([rq EXCEPT !.apiKey = Identity(rq.verifiedKey)])

\* authenticateApiKey, from the return of checkRateLimit to its end.
authenticateApiKeyChecked(rq, hasCapacity) ==
    IF ~hasCapacity
    THEN Reject(rq, 429, RateLimitMsg(rq.verifiedKey.rate_limit_per_hour))
    ELSE CallNext([rq EXCEPT !.apiKey = Identity(rq.verifiedKey)])

optionalAuthenticationStartRejects(rq) ==
    IF Falsy(rq.header) THEN CallNext(rq)
    ELSE IF parseApiKey(rq.header[1]) = NULL
    THEN Reject(rq, 401, Msg("Invalid API key format"))
    ELSE [rq EXCEPT !.pc = "verify"]

\* optionalAuthentication, up to its first await.
optionalAuthenticationStart(rq) ==
    IF Falsy(rq.header) THEN CallNext(rq)
    ELSE IF parseApiKey(rq.header[1]) = NULL THEN CallNext(rq)
    ELSE [rq EXCEPT !.pc = "verify"]

\* optionalAuthentication, from the return of verifyApiKey to its next await.
optionalAuthenticationVerified(rq, verifiedKey) ==
    IF verifiedKey = NULL THEN CallNext(rq)
    ELSE [rq EXCEPT !.pc = "quota", !.verifiedKey = verifiedKey]

optionalAuthenticationCheckedDowngrades(rq, hasCapacity) ==
    IF ~hasCapacity THEN CallNext(rq)
    ELSE CallNext([rq EXCEPT !.apiKey = Identity(rq.verifiedKey)])

\* optionalAuthentication, from the return of checkRateLimit to its end.
optionalAuthenticationChecked(rq, hasCapacity) ==
    IF ~hasCapacity
    THEN Reject(rq, 429, RateLimitMsg(rq.verifiedKey.rate_limit_per_hour))
    ELSE CallNext([rq EXCEPT !.apiKey = Identity(rq.verifiedKey)])

Required(rq) == rq.route = "required"

\* A request arrives at slot r and runs to the middleware's first await.
Receive(r, route, header) ==
    /\ req[r].pc \in {"idle", "done"}
    /\ LET rq == [IdleReq EXCEPT !.route = route, !.header = header]
       IN  req' = [req EXCEPT ![r] = IF Required(rq) THEN authenticateApiKeyStart(rq)
                                     ELSE optionalAuthenticationStart(rq)]
    /\ UNCHANGED <<apiKeys, nextKeyId, apiUsage, now, ADMIN_TOKEN, admin, issued>>

\* The middleware from the await of verifyApiKey to its next await or its end,
\* against the rows `keys` of api_keys.
AfterVerify(rq, keys, dbThrows) ==
    LET parsed == parseApiKey(rq.header[1])
        verifiedKey == verifyApiKey(keys, parsed.keyId, parsed.keySecret, dbThrows)
        rq1 == [rq EXCEPT !.dbOps = Append(@, DbOp("select api_keys", ~dbThrows))]
    IN  IF Required(rq) THEN authenticateApiKeyVerified(rq1, verifiedKey)
        ELSE optionalAuthenticationVerified(rq1, verifiedKey)

\* The middleware from the await of checkRateLimit to its end.
AfterCheck(rq, usage, t, dbThrows) ==
    LET vk == rq.verifiedKey
        hasCapacity == checkRateLimit(usage, t, vk.id, vk.rate_limit_per_hour, dbThrows)
        rq1 == [rq EXCEPT !.dbOps = Append(@, DbOp("count api_usage", ~dbThrows))]
    IN  IF Required(rq) THEN authenticateApiKeyChecked(rq1, hasCapacity)
        ELSE optionalAuthenticationChecked(rq1, hasCapacity)

\* The select of verifyApiKey returns or raises, and the middleware goes on.
Verify(r, dbThrows) ==
    /\ req[r].pc = "verify"
    /\ req' = [req EXCEPT ![r] = AfterVerify(req[r], apiKeys, dbThrows)]
    /\ UNCHANGED <<apiKeys, nextKeyId, apiUsage, now, ADMIN_TOKEN, admin, issued>>

\* The count of checkRateLimit returns or raises, and the middleware ends.
CheckQuota(r, dbThrows) ==
    /\ req[r].pc = "quota"
    /\ req' = [req EXCEPT ![r] = AfterCheck(req[r], apiUsage, now, dbThrows)]
    /\ UNCHANGED <<apiKeys, nextKeyId, apiUsage, now, ADMIN_TOKEN, admin, issued>>

(***************************************************************************)
(* server/routes.ts: the two analyze routes behind optionalAuthentication, *)
(* and logApiUsage.  body is what schema validation makes of the request   *)
(* body, fetch the outcome of the metadata extraction.                     *)
(***************************************************************************)
Bodies == {"valid", "schema_invalid", "not_video"}
Fetches == {"ok", "throws"}

Endpoint(route) == IF route = "analyze" THEN "/api/analyze" ELSE "/api/analyze-playlist"

\* `if (req.apiKey) await logApiUsage(.., status, ..)` and then the response.
LogThenRespond(rq, status, error) ==
    IF rq.apiKey # NULL
    THEN [rq EXCEPT !.pc = "log", !.pending = Response(status, error)]
    ELSE [rq EXCEPT !.pc = "done", !.res = Response(status, error)]

\* POST /api/analyze, from next() to the usage write or the response.
analyzeHandler(rq, body, fetch) ==
    IF body = "schema_invalid"
    THEN LogThenRespond(rq, 500, Msg("error.message of ZodError"))
    ELSE IF body = "not_video"
    THEN [rq EXCEPT !.pc = "done", !.res = Response(400, Msg("Invalid YouTube URL"))]
    ELSE IF fetch = "throws"
    THEN LogThenRespond(rq, 500, Msg("error.message of ytdl.getInfo"))
    ELSE LogThenRespond(rq, 200, Msg(""))

\* POST /api/analyze-playlist: it writes no usage row on any path.  Its 400
\* branch tests the pattern the schema has already required of the URL.
analyzePlaylistHandler(rq, body, fetch) ==
    IF body # "valid"
    THEN [rq EXCEPT !.pc = "done", !.res = Response(500, Msg("error.message of ZodError"))]
    ELSE IF fetch = "throws"
    THEN [rq EXCEPT !.pc = "done", !.res = Response(500, Msg("error.message of ytpl"))]
    ELSE [rq EXCEPT !.pc = "done", !.res = Response(200, Msg(""))]

Handle(r, body, fetch) ==
    /\ req[r].pc = "handler"
    /\ LET rq == [req[r] EXCEPT !.body = body]          \* req.body
       IN  req' = [req EXCEPT ![r] = IF rq.route = "analyze"
                                     THEN analyzeHandler(rq, body, fetch)
                                     ELSE analyzePlaylistHandler(rq, body, fetch)]
    /\ UNCHANGED <<apiKeys, nextKeyId, apiUsage, now, ADMIN_TOKEN, admin, issued>>

logApiUsageNoForeignKey(usage, keys, t, apiKeyId, endpoint, responseStatus, dbThrows) ==
    IF dbThrows THEN usage
    ELSE Append(usage, [api_key_id |-> apiKeyId, endpoint |-> endpoint,
                        request_timestamp |-> t, response_status |-> responseStatus])

\* logApiUsage: the insert succeeds unless the store raises or the row's
\* api_key_id references no row of api_keys; the error is caught and dropped.
logApiUsage(usage, keys, t, apiKeyId, endpoint, responseStatus, dbThrows) ==
    IF dbThrows \/ ~(\E k \in keys : k.id = apiKeyId)
    THEN usage
    ELSE Append(usage, [api_key_id |-> apiKeyId, endpoint |-> endpoint,
                        request_timestamp |-> t, response_status |-> responseStatus])

analyzeRespondFailsOnLogError(rq, inserted) ==
    [rq EXCEPT !.pc = "done",
               !.res = IF inserted THEN rq.pending
                       ELSE Response(500, Msg("error.message of the store")),
               !.pending = NoResponse,
               !.dbOps = Append(@, DbOp("insert api_usage", inserted))]

\* POST /api/analyze, from the return of `await logApiUsage(..)` to the
\* response: logApiUsage has caught what the insert raised, and the handler
\* sends the response it had prepared.
analyzeRespond(rq, inserted) ==
    [rq EXCEPT !.pc = "done", !.res = rq.pending, !.pending = NoResponse,
               !.dbOps = Append(@, DbOp("insert api_usage", inserted))]

\* The insert of logApiUsage returns or raises, and the handler responds.
LogUsage(r, dbThrows) ==
    /\ req[r].pc = "log"
    /\ LET rq == req[r]
           usage == logApiUsage(apiUsage, apiKeys, now, rq.apiKey.id, Endpoint(rq.route),
                                rq.pending.status, dbThrows)
       IN  /\ usage = apiUsage \/ Len(usage) <= MaxUsage
           /\ apiUsage' = usage
           /\ req' = [req EXCEPT ![r] = analyzeRespond(rq, usage # apiUsage)]
    /\ UNCHANGED <<apiKeys, nextKeyId, now, ADMIN_TOKEN, admin, issued>>

\* Time passes.
Tick ==
    /\ now < MaxTicks * TickMinutes
    /\ now' = now + TickMinutes
    /\ UNCHANGED <<apiKeys, nextKeyId, apiUsage, ADMIN_TOKEN, req, admin, issued>>

(***************************************************************************)
(* server/auth.ts: authenticateAdmin; server/routes.ts: the key            *)
(* management routes behind it.  Each is one step: the guard has no await  *)
(* and the route one statement against the store.                          *)
(***************************************************************************)
TokenA == <<"A", "F">>
TokenB == <<"B", "F">>      \* differs from TokenA in its first character
TokenF == <<"A", "B">>      \* differs from TokenA in its last character

AdminTokenConfigs == {Absent, Some(<<>>), Some(TokenA)}
AdminTokenHeaders == {Absent, Some(<<>>), Some(TokenA), Some(TokenB), Some(TokenF)}

\* The code units `a !== b` reads on two strings.  The language fixes the
\* result of the comparison, not its cost; the engines compare the lengths
\* and then the code units up to the first pair that differs.
StrictEqualsExamined(a, b) ==
    IF Len(a) # Len(b) THEN 0
    ELSE LET diff == {i \in 1..Len(a) : a[i] # b[i]}
         IN  IF diff = {} THEN Len(a)
             ELSE CHOOSE i \in diff : \A j \in diff : i <= j

\* `Authorization: Bearer <token>`
Bearer(token) == <<"B", "e", "a", "r", "e", "r", " ">> \o token

AuthorizationHeaders == {Absent, Some(Bearer(TokenA))}

authenticateAdminTokenFirst(adminToken, requiredAdminToken) ==
    IF Falsy(adminToken)
    THEN [isAdmin |-> FALSE, examined |-> 0,
          res |-> Response(401, Msg("Admin token required. Include 'X-Admin-Token' header with your request."))]
    ELSE IF Falsy(requiredAdminToken)
    THEN [isAdmin |-> FALSE, examined |-> 0,
          res |-> Response(500, Msg("Admin authentication is not properly configured"))]
    ELSE IF adminToken[1] # requiredAdminToken[1]
    THEN [isAdmin |-> FALSE, res |-> Response(403, Msg("Invalid admin token")),
          examined |-> StrictEqualsExamined(adminToken[1], requiredAdminToken[1])]
    ELSE [isAdmin |-> TRUE, res |-> NoResponse,
          examined |-> StrictEqualsExamined(adminToken[1], requiredAdminToken[1])]

authenticateAdminAdmitsUnconfigured(adminToken, requiredAdminToken) ==
    IF Falsy(requiredAdminToken)
    THEN [isAdmin |-> TRUE, examined |-> 0, res |-> NoResponse]
    ELSE IF Falsy(adminToken)
    THEN [isAdmin |-> FALSE, examined |-> 0,
          res |-> Response(401, Msg("Admin token required. Include 'X-Admin-Token' header with your request."))]
    ELSE IF adminToken[1] # requiredAdminToken[1]
    THEN [isAdmin |-> FALSE, res |-> Response(403, Msg("Invalid admin token")),
          examined |-> StrictEqualsExamined(adminToken[1], requiredAdminToken[1])]
    ELSE [isAdmin |-> TRUE, res |-> NoResponse,
          examined |-> StrictEqualsExamined(adminToken[1], requiredAdminToken[1])]

\* authenticateAdmin: the response it writes, or req.isAdmin = true and next().
authenticateAdmin(adminToken, requiredAdminToken) ==
    IF Falsy(requiredAdminToken)
    THEN [isAdmin |-> FALSE, examined |-> 0,
          res |-> Response(500, Msg("Admin authentication is not properly configured"))]
    ELSE IF Falsy(adminToken)
    THEN [isAdmin |-> FALSE, examined |-> 0,
          res |-> Response(401, Msg("Admin token required. Include 'X-Admin-Token' header with your request."))]
    ELSE IF adminToken[1] # requiredAdminToken[1]
    THEN [isAdmin |-> FALSE, res |-> Response(403, Msg("Invalid admin token")),
          examined |-> StrictEqualsExamined(adminToken[1], requiredAdminToken[1])]
    ELSE [isAdmin |-> TRUE, res |-> NoResponse,
          examined |-> StrictEqualsExamined(adminToken[1], requiredAdminToken[1])]

\* What a management request leaves behind: the request, whether the guard let
\* it through to the route, the code units its token comparison read, the
\* response, and what generateApiKey() returned if the route called it.
AdminResult(op, authorization, adminToken, guard, res, data) ==
    [op |-> op, authorization |-> authorization, xAdminToken |-> adminToken,
     isAdmin |-> guard.isAdmin, examined |-> guard.examined,
     res |-> IF guard.isAdmin THEN res ELSE guard.res, data |-> data,
     generated |-> NULL]

NoAdmin == [op |-> "none", authorization |-> Absent, xAdminToken |-> Absent,
            isAdmin |-> FALSE, examined |-> 0,
            res |-> NoResponse, data |-> NULL, generated |-> NULL]

KeyIdSamples == {ToHex(b) : b \in randomBytes(KeyIdBytes)}

createApiKeySchemaNoMinimum(body) ==
    /\ body.name # Absent /\ body.name[1] # ""
    /\ body.rate_limit_per_hour # Absent => body.rate_limit_per_hour[1] <= 10000

\* createApiKeySchema.parse(body) does not throw.
createApiKeySchemaAccepts(body) ==
    /\ body.name # Absent /\ body.name[1] # ""
    /\ body.rate_limit_per_hour # Absent =>
         (body.rate_limit_per_hour[1] >= 1 /\ body.rate_limit_per_hour[1] <= 10000)

CreateBodies ==
    {[name |-> Some("svc"), rate_limit_per_hour |-> rl] :
        rl \in {Absent, Some(0), Some(1), Some(2)}}
    \cup {[name |-> Absent, rate_limit_per_hour |-> Absent]}

\* The public columns of a row of api_keys.
KeyView(k) == [id |-> k.id, key_id |-> k.key_id, name |-> k.name,
               is_active |-> k.is_active, rate_limit_per_hour |-> k.rate_limit_per_hour]

\* POST /api/keys
CreateKey(authorization, adminToken, body, idBytes, secretBytes, dbThrows) ==
    LET guard == authenticateAdmin(adminToken, ADMIN_TOKEN)
        gen == generateApiKey(idBytes, secretBytes)
        limit == IF body.rate_limit_per_hour = Absent THEN DefaultRateLimit
                 ELSE IF body.rate_limit_per_hour[1] = 0 THEN 100
                 ELSE body.rate_limit_per_hour[1]
        row == [id |-> nextKeyId, key_id |-> gen.keyId, key_hash |-> gen.keyHash,
                name |-> body.name[1], is_active |-> TRUE, rate_limit_per_hour |-> limit]
        Failed(text) == [AdminResult("create", authorization, adminToken, guard,
                                     Response(500, Msg(text)), NULL)
                         EXCEPT !.generated = gen]
    IN  /\ UNCHANGED <<apiUsage, now, ADMIN_TOKEN, req>>
        /\ IF ~guard.isAdmin
           THEN /\ admin' = AdminResult("create", authorization, adminToken, guard, NoResponse, NULL)
                /\ UNCHANGED <<apiKeys, nextKeyId, issued>>
           ELSE IF ~createApiKeySchemaAccepts(body)
           THEN /\ admin' = AdminResult("create", authorization, adminToken, guard,
                                Response(500, Msg("error.message of ZodError")), NULL)
                /\ UNCHANGED <<apiKeys, nextKeyId, issued>>
           ELSE IF dbThrows
           THEN /\ admin' = Failed("error.message of the store")
                /\ UNCHANGED <<apiKeys, nextKeyId, issued>>
           ELSE /\ nextKeyId <= MaxKeys
                /\ nextKeyId' = nextKeyId + 1        \* a failed insert uses the serial too
                /\ IF \E k \in apiKeys : k.key_id = gen.keyId      \* unique(key_id)
                   THEN /\ admin' = Failed("error.message of the store")
                        /\ UNCHANGED <<apiKeys, issued>>
                   ELSE /\ apiKeys' = apiKeys \cup {row}
                        /\ issued' = issued \cup {[id |-> row.id, api_key |-> gen.keySecret]}
                        /\ admin' = [AdminResult("create", authorization, adminToken, guard,
                                         Response(201, Msg("")),
                                         [key |-> KeyView(row), api_key |-> gen.keySecret])
                                     EXCEPT !.generated = gen]

\* GET /api/keys
ListKeys(authorization, adminToken, dbThrows) ==
    LET guard == authenticateAdmin(adminToken, ADMIN_TOKEN)
        oneDayAgo == now - DayMinutes
        keysWithUsage == {[key |-> KeyView(k),
                           usage_today |-> countUsageSince(apiUsage, k.id, oneDayAgo)] :
                          k \in apiKeys}
    IN  /\ UNCHANGED <<apiKeys, nextKeyId, apiUsage, now, ADMIN_TOKEN, req, issued>>
        /\ admin' = IF ~guard.isAdmin
                    THEN AdminResult("list", authorization, adminToken, guard, NoResponse, NULL)
                    ELSE IF dbThrows
                    THEN AdminResult("list", authorization, adminToken, guard,
                                     Response(500, Msg("Failed to list API keys")), NULL)
                    ELSE AdminResult("list", authorization, adminToken, guard, Response(200, Msg("")),
                                     [keys |-> keysWithUsage])

DeleteKeyNoCascade(authorization, adminToken, keyId, dbThrows) ==
    LET guard == authenticateAdmin(adminToken, ADMIN_TOKEN)
        deleted == {k \in apiKeys : k.key_id = keyId}
    IN  /\ UNCHANGED <<nextKeyId, apiUsage, now, ADMIN_TOKEN, req, issued>>
        /\ apiKeys' = IF guard.isAdmin /\ ~dbThrows THEN apiKeys \ deleted ELSE apiKeys
        /\ admin' = IF ~guard.isAdmin
                    THEN AdminResult("delete", authorization, adminToken, guard, NoResponse, NULL)
                    ELSE IF dbThrows
                    THEN AdminResult("delete", authorization, adminToken, guard,
                                     Response(500, Msg("Failed to delete API key")), NULL)
                    ELSE IF deleted = {}
                    THEN AdminResult("delete", authorization, adminToken, guard,
                                     Response(404, Msg("API key not found")), NULL)
                    ELSE AdminResult("delete", authorization, adminToken, guard,
                                     Response(200, Msg("")),
                                     [message |-> "API key deleted successfully"])

\* DELETE /api/keys/:keyId; api_usage.api_key_id is declared on delete cascade.
DeleteKey(authorization, adminToken, keyId, dbThrows) ==
    LET guard == authenticateAdmin(adminToken, ADMIN_TOKEN)
        deleted == {k \in apiKeys : k.key_id = keyId}
        Kept(u) == \A k \in deleted : u.api_key_id # k.id
    IN  /\ UNCHANGED <<nextKeyId, now, ADMIN_TOKEN, req, issued>>
        /\ IF ~guard.isAdmin
           THEN /\ admin' = AdminResult("delete", authorization, adminToken, guard, NoResponse, NULL)
                /\ UNCHANGED <<apiKeys, apiUsage>>
           ELSE IF dbThrows
           THEN /\ admin' = AdminResult("delete", authorization, adminToken, guard,
                                Response(500, Msg("Failed to delete API key")), NULL)
                /\ UNCHANGED <<apiKeys, apiUsage>>
           ELSE /\ apiKeys' = apiKeys \ deleted
                /\ apiUsage' = SelectSeq(apiUsage, Kept)
                /\ admin' = IF deleted = {}
                            THEN AdminResult("delete", authorization, adminToken, guard,
                                             Response(404, Msg("API key not found")), NULL)
                            ELSE AdminResult("delete", authorization, adminToken, guard, Response(200, Msg("")),
                                             [message |-> "API key deleted successfully"])

\* String.prototype.toLowerCase, on the letters the model's headers use.
ToLowerCase(s) ==
    [i \in 1..Len(s) |-> CASE s[i] = "A" -> "a"
                           [] s[i] = "B" -> "b"
                           [] s[i] = "F" -> "f"
                           [] OTHER -> s[i]]

\* requireAdmin of server/auth.ts, the guard the router of GET /keys imports:
\* the token of `Authorization: Bearer <token>`, else the X-Admin-Token header.
requireAdmin(authorization, adminToken, requiredAdminToken) ==
    LET split == IF Falsy(authorization) THEN <<>> ELSE Split(authorization[1], " ")
        bearer == IF Len(split) = 2 /\ ToLowerCase(split[1]) = <<"b", "e", "a", "r", "e", "r">>
                  THEN split[2] ELSE <<>>
        token == IF bearer = <<>> /\ adminToken # Absent THEN adminToken[1] ELSE bearer
    IN  IF token # <<>> /\ requiredAdminToken # Absent /\ token = requiredAdminToken[1]
        THEN [isAdmin |-> TRUE, res |-> NoResponse, examined |-> Len(token)]
        ELSE [isAdmin |-> FALSE, res |-> Response(401, Msg("Unauthorized")),
              examined |-> IF token # <<>> /\ requiredAdminToken # Absent
                           THEN StrictEqualsExamined(token, requiredAdminToken[1])
                           ELSE 0]

\* router.get('/keys'): `db.select().from(apiKeys)` returns every column of
\* every row, and the response carries the rows as selected.
RouterListKeys(authorization, adminToken, dbThrows) ==
    LET guard == requireAdmin(authorization, adminToken, ADMIN_TOKEN)
    IN  /\ UNCHANGED <<apiKeys, nextKeyId, apiUsage, now, ADMIN_TOKEN, req, issued>>
        /\ admin' = IF ~guard.isAdmin
                    THEN AdminResult("router list", authorization, adminToken, guard,
                                     NoResponse, NULL)
                    ELSE IF dbThrows
                    THEN AdminResult("router list", authorization, adminToken, guard,
                                     Response(500, Msg("Failed to list API keys")), NULL)
                    ELSE AdminResult("router list", authorization, adminToken, guard,
                                     Response(200, Msg("")), [rows |-> apiKeys])

PatchBodies ==
    {[is_active |-> a, rate_limit_per_hour |-> rl] :
        a \in {Absent, Some(TRUE), Some(FALSE)}, rl \in {Absent, Some(0), Some(2)}}

\* PATCH /api/keys/:keyId
UpdateKey(authorization, adminToken, keyId, body, dbThrows) ==
    LET guard == authenticateAdmin(adminToken, ADMIN_TOKEN)
        Updated(k) ==
            [k EXCEPT !.is_active = IF body.is_active # Absent
                                    THEN body.is_active[1] ELSE @,
                      !.rate_limit_per_hour =
                          IF body.rate_limit_per_hour # Absent
                             /\ body.rate_limit_per_hour[1] > 0
                          THEN body.rate_limit_per_hour[1] ELSE @]
        hit == {k \in apiKeys : k.key_id = keyId}
    IN  /\ UNCHANGED <<nextKeyId, apiUsage, now, ADMIN_TOKEN, req, issued>>
        /\ IF ~guard.isAdmin
           THEN /\ admin' = AdminResult("update", authorization, adminToken, guard, NoResponse, NULL)
                /\ UNCHANGED apiKeys
           ELSE IF dbThrows
           THEN /\ admin' = AdminResult("update", authorization, adminToken, guard,
                                Response(500, Msg("Failed to update API key")), NULL)
                /\ UNCHANGED apiKeys
           ELSE /\ apiKeys' = (apiKeys \ hit) \cup {Updated(k) : k \in hit}
                /\ admin' = IF hit = {}
                            THEN AdminResult("update", authorization, adminToken, guard,
                                             Response(404, Msg("API key not found")), NULL)
                            ELSE AdminResult("update", authorization, adminToken, guard, Response(200, Msg("")),
                                             [key |-> KeyView(Updated(CHOOSE k \in hit : TRUE))])

(***************************************************************************)
(* The system: an empty store, the operator secret configured or not, and  *)
(* management requests, API requests and the clock in any order.           *)
(***************************************************************************)
KeySecretSamples == {ToHex(b) : b \in randomBytes(SecretBytes)}

\* A secret with the digest of another: the same characters in another order.
Swapped(s) == [i \in 1..Len(s) |-> IF i % 2 = 1 THEN s[i + 1] ELSE s[i - 1]]

Garbage == <<"g", "a", "r", "b", "a", "g", "e">>

\* The values of the X-API-Key header the requests carry.
HeaderSamples ==
    {Absent, Some(<<>>), Some(Garbage)}
    \cup {Some(Composite(k, s)) : k \in KeyIdSamples, s \in KeySecretSamples}
    \cup {Some(Composite(k, Swapped(s))) : k \in KeyIdSamples, s \in KeySecretSamples}
    \cup {Some(<<"y", "t", "_">> \o k) : k \in KeyIdSamples}
    \cup {Some(Composite(k, s) \o <<"_", "x">>) :
              k \in {ToHex([i \in 1..KeyIdBytes |-> 171])},
              s \in {ToHex([i \in 1..SecretBytes |-> 171])}}
    \cup {Some(<<"x", "t", "_">> \o k \o <<"_">> \o s) :
              k \in {ToHex([i \in 1..KeyIdBytes |-> 171])},
              s \in {ToHex([i \in 1..SecretBytes |-> 171])}}

Init ==
    /\ apiKeys = {}
    /\ nextKeyId = 1
    /\ apiUsage = <<>>
    /\ now = 0
    /\ ADMIN_TOKEN \in AdminTokenConfigs
    /\ req = [r \in Reqs |-> IdleReq]
    /\ admin = NoAdmin
    /\ issued = {}

\* The requests of one slot, over the given routes, headers and bodies.
Requests(r, routes, headers, bodies, fetches) ==
    \/ \E route \in routes, header \in headers : Receive(r, route, header)
    \/ \E dbThrows \in BOOLEAN : Verify(r, dbThrows)
    \/ \E dbThrows \in BOOLEAN : CheckQuota(r, dbThrows)
    \/ \E body \in bodies, fetch \in fetches : Handle(r, body, fetch)
    \/ \E dbThrows \in BOOLEAN : LogUsage(r, dbThrows)

\* One credential issued with an hourly limit of 1, deactivated, reactivated
\* and deleted by the operator; requests of every shape, one at a time.
Next ==
    \/ Requests(1, {"required", "analyze"}, HeaderSamples, {"valid"}, {"ok"})
    \/ Tick
    \/ \E secretBytes \in randomBytes(SecretBytes) :
          CreateKey(Absent, ADMIN_TOKEN, [name |-> Some("svc"), rate_limit_per_hour |-> Some(1)],
                    [i \in 1..KeyIdBytes |-> 171], secretBytes, FALSE)
    \/ \E keyId \in KeyIdSamples : DeleteKey(Absent, ADMIN_TOKEN, keyId, FALSE)
    \/ \E keyId \in KeyIdSamples, active \in BOOLEAN :
          UpdateKey(Absent, ADMIN_TOKEN, keyId,
                    [is_active |-> Some(active), rate_limit_per_hour |-> Absent], FALSE)

Spec == Init /\ [][Next]_vars

(***************************************************************************)
(* The management routes alone, with every token, body and store failure.  *)
(* What a request carries besides its headers matters only once the guard  *)
(* has let it through, so the bodies and store failures are varied under   *)
(* the operator's token.                                                   *)
(***************************************************************************)
NextAdmin ==
    \* every pair of headers, with a plain request
    \/ \E authorization \in AuthorizationHeaders, adminToken \in AdminTokenHeaders :
          \/ CreateKey(authorization, adminToken,
                       [name |-> Some("svc"), rate_limit_per_hour |-> Absent],
                       [i \in 1..KeyIdBytes |-> 171], [i \in 1..SecretBytes |-> 171], FALSE)
          \/ ListKeys(authorization, adminToken, FALSE)
          \/ \E keyId \in KeyIdSamples : DeleteKey(authorization, adminToken, keyId, FALSE)
          \/ \E keyId \in KeyIdSamples :
                UpdateKey(authorization, adminToken, keyId,
                          [is_active |-> Some(FALSE), rate_limit_per_hour |-> Absent], FALSE)
    \* the operator's token, with every request
    \/ \E body \in CreateBodies, idBytes \in randomBytes(KeyIdBytes),
          secretBytes \in randomBytes(SecretBytes), dbThrows \in BOOLEAN :
            CreateKey(Absent, Some(TokenA), body, idBytes, secretBytes, dbThrows)
    \/ \E dbThrows \in BOOLEAN : ListKeys(Absent, Some(TokenA), dbThrows)
    \/ \E keyId \in KeyIdSamples, dbThrows \in BOOLEAN :
            DeleteKey(Absent, Some(TokenA), keyId, dbThrows)
    \/ \E keyId \in KeyIdSamples, body \in PatchBodies, dbThrows \in BOOLEAN :
            UpdateKey(Absent, Some(TokenA), keyId, body, dbThrows)

SpecAdmin == Init /\ [][NextAdmin]_vars

(***************************************************************************)
(* The quota check against a store that has seen traffic: a credential of  *)
(* limit 1 or 100 with up to 101 usage rows inside the trailing hour, rows *)
(* 61 minutes old and rows of another credential.  Requests present the    *)
(* first credential; the clock starts at 0, so the rows carry the minutes  *)
(* before it.                                                              *)
(***************************************************************************)
SeededKey(id, idByte, secretByte, limit) ==
    LET gen == generateApiKey([i \in 1..KeyIdBytes |-> idByte],
                              [i \in 1..SecretBytes |-> secretByte])
    IN  [id |-> id, key_id |-> gen.keyId, key_hash |-> gen.keyHash, name |-> "svc",
         is_active |-> TRUE, rate_limit_per_hour |-> limit]

\* What the 201 response that created a seeded key carried.
SeededIssue(id, idByte, secretByte) ==
    [id |-> id,
     api_key |-> generateApiKey([i \in 1..KeyIdBytes |-> idByte],
                                [i \in 1..SecretBytes |-> secretByte]).keySecret]

SeededRows(id, n, t) ==
    [i \in 1..n |-> [api_key_id |-> id, endpoint |-> "/api/analyze",
                     request_timestamp |-> t, response_status |-> 200]]

InitRate ==
    /\ \E limit \in {1, 100} :
          apiKeys = {SeededKey(1, 171, 171, limit), SeededKey(2, 95, 95, 100)}
    /\ nextKeyId = 3
    /\ \E recent \in {0, 98, 99, 100}, edge \in {0, 1}, old \in {0, 3}, other \in {0, 100} :
          apiUsage = SeededRows(1, old, 0 - (WindowMinutes + 1))
                     \o SeededRows(1, edge, 0 - WindowMinutes)
                     \o SeededRows(2, other, 0 - 1)
                     \o SeededRows(1, recent, 0 - (WindowMinutes - 1))
    /\ now = 0
    /\ ADMIN_TOKEN = Some(TokenA)
    /\ req = [r \in Reqs |-> IdleReq]
    /\ admin = NoAdmin
    /\ issued = {SeededIssue(1, 171, 171), SeededIssue(2, 95, 95)}

NextRate ==
    \/ Requests(1, {"required", "analyze"},
                {Some(generateApiKey([i \in 1..KeyIdBytes |-> 171],
                                     [i \in 1..SecretBytes |-> 171]).keySecret)},
                {"valid"}, {"ok"})
    \/ Tick

SpecRate == InitRate /\ [][NextRate]_vars

(***************************************************************************)
(* The two analyze routes with every body and every outcome of the         *)
(* extraction, anonymous and with the credential of a stored key, and      *)
(* POST /api/keys with every body; every store access may raise.           *)
(***************************************************************************)
InitOps ==
    /\ \E limit \in {1, 100} : apiKeys = {SeededKey(1, 171, 171, limit)}
    /\ nextKeyId = 2
    /\ apiUsage = <<>>
    /\ now = 0
    /\ ADMIN_TOKEN = Some(TokenA)
    /\ req = [r \in Reqs |-> IdleReq]
    /\ admin = NoAdmin
    /\ issued = {SeededIssue(1, 171, 171)}

NextOps ==
    \/ Requests(1, {"analyze", "playlist"},
                {Absent, Some(generateApiKey([i \in 1..KeyIdBytes |-> 171],
                                             [i \in 1..SecretBytes |-> 171]).keySecret)},
                Bodies, Fetches)
    \/ \E body \in CreateBodies, secretBytes \in randomBytes(SecretBytes),
          dbThrows \in BOOLEAN :
            CreateKey(Absent, Some(TokenA), body, [i \in 1..KeyIdBytes |-> 95], secretBytes, dbThrows)

SpecOps == InitOps /\ [][NextOps]_vars

(***************************************************************************)
(* The management routes against a store that has seen traffic: two keys,  *)
(* each with usage rows, the rows of the two interleaved; the operator     *)
(* lists, updates and deletes, and requests present either credential.     *)
(***************************************************************************)
InitStore ==
    /\ apiKeys = {SeededKey(1, 171, 171, 2), SeededKey(2, 95, 95, 2)}
    /\ nextKeyId = 3
    /\ \E a \in {1}, b \in {1, 2}, c \in {0, 1} :
          apiUsage = SeededRows(1, a, 0) \o SeededRows(2, b, 0) \o SeededRows(1, c, 0)
    /\ now = 0
    /\ ADMIN_TOKEN = Some(TokenA)
    /\ req = [r \in Reqs |-> IdleReq]
    /\ admin = NoAdmin
    /\ issued = {SeededIssue(1, 171, 171), SeededIssue(2, 95, 95)}

NextStore ==
    \/ Requests(1, {"required", "analyze"}, {Some(i.api_key) : i \in issued},
                {"valid"}, {"ok"})
    \/ \E adminToken \in {Some(TokenA), Some(TokenB)}, dbThrows \in BOOLEAN :
            ListKeys(Absent, adminToken, dbThrows)
    \/ \E authorization \in AuthorizationHeaders,
          adminToken \in {Absent, Some(TokenA), Some(TokenB)}, dbThrows \in BOOLEAN :
            RouterListKeys(authorization, adminToken, dbThrows)
    \/ \E adminToken \in {Some(TokenA), Some(TokenB)}, keyId \in KeyIdSamples,
          dbThrows \in BOOLEAN :
            DeleteKey(Absent, adminToken, keyId, dbThrows)
    \/ \E adminToken \in {Some(TokenA), Some(TokenB)}, keyId \in KeyIdSamples,
          active \in BOOLEAN, dbThrows \in BOOLEAN :
            UpdateKey(Absent, adminToken, keyId,
                      [is_active |-> Some(active), rate_limit_per_hour |-> Absent], dbThrows)

SpecStore == InitStore /\ [][NextStore]_vars

(***************************************************************************)
(* A burst: two requests at a time present the credential of one key whose *)
(* trailing-hour count stands one below its limit.                         *)
(***************************************************************************)
BurstLimits == 1..(MaxUsage - 1)

InitBurst ==
    /\ \E limit \in BurstLimits :
          /\ apiKeys = {SeededKey(1, 171, 171, limit)}
          /\ apiUsage = SeededRows(1, limit - 1, 0)
    /\ nextKeyId = 2
    /\ now = 0
    /\ ADMIN_TOKEN = Some(TokenA)
    /\ req = [r \in Reqs |-> IdleReq]
    /\ admin = NoAdmin
    /\ issued = {SeededIssue(1, 171, 171)}

NextBurst ==
    \E r \in Reqs :
        Requests(r, {"analyze"}, {Some(i.api_key) : i \in issued}, {"valid"}, {"ok"})

SpecBurst == InitBurst /\ [][NextBurst]_vars

(***************************************************************************)
(* Properties.                                                             *)
(***************************************************************************)
Last(s) == s[Len(s)]

\* The (keyId, secret) pair a request presents, once its header has parsed.
Presented(rq) == parseApiKey(rq.header[1])

\* The rows of `keys` with this keyId that are active and store the digest of
\* this secret.
MatchingRows(keys, keyId, secret) ==
    {k \in keys : k.key_id = keyId /\ k.is_active /\ k.key_hash = Sha256Hex(secret)}

\* The step of slot r in which the select of verifyApiKey completes.
VerifyStep(r) == req[r].pc = "verify" /\ req'[r] # req[r]

\* The step of slot r in which the count of checkRateLimit completes.
CheckStep(r) == req[r].pc = "quota" /\ req'[r] # req[r]

\* The step in which a request arrives at slot r.
ReceiveStep(r) == req[r].pc \in {"idle", "done"} /\ req'[r] # req[r]

\* C1: whenever the lookup of verifyApiKey returns, the call returns a row if
\* and only if a row with the presented keyId exists, is active and stores the
\* SHA-256 digest of the presented secret, and then it returns that row; for
\* an unknown keyId, an inactive row or a wrong secret it returns null.
C1_VerifyIffActiveRowWithDigest ==
    [][\A r \in Reqs : VerifyStep(r) =>
          LET match == MatchingRows(apiKeys, Presented(req[r]).keyId,
                                    Presented(req[r]).keySecret)
              returned == req'[r].verifiedKey
          IN  /\ returned # NULL => returned \in match
              /\ (Last(req'[r].dbOps).ok /\ match # {}) => returned \in match
              /\ match = {} => returned = NULL]_vars

\* C1 witness: a lookup has returned the row of the presented credential.
C1_Witness ==
    \E r \in Reqs : /\ req[r].pc = "quota"
                    /\ req[r].verifiedKey \in apiKeys
                    /\ req[r].dbOps = <<DbOp("select api_keys", TRUE)>>

Rejected(rq, status, text) ==
    /\ rq.pc = "done"
    /\ rq.res = Response(status, Msg(text))
    /\ rq.nextCalls = 0
    /\ rq.apiKey = NULL

\* The rows of `usage` of one credential that are at most 60 minutes old at t.
RowsInTrailingHour(usage, apiKeyId, t) ==
    {i \in DOMAIN usage : usage[i].api_key_id = apiKeyId
                          /\ t - usage[i].request_timestamp <= 60}

\* C2: in required mode a request without X-API-Key header, one whose header
\* does not parse and one whose well-formed credential does not verify are
\* each answered 401 with next() never called and req.apiKey unset; a
\* credential that verifies and is under its quota reaches next() with
\* req.apiKey holding id, key_id, name and rate_limit_per_hour of its row.
C2_RequiredMode ==
    [][\A r \in Reqs : req'[r].route = "required" =>
          LET a == req[r]
              b == req'[r]
          IN  /\ (ReceiveStep(r) /\ Falsy(b.header)) =>
                    Rejected(b, 401, "API key required. Include 'X-API-Key' header with your request.")
              /\ (ReceiveStep(r) /\ ~Falsy(b.header) /\ Presented(b) = NULL) =>
                    Rejected(b, 401, "Invalid API key format")
              /\ (VerifyStep(r) /\ MatchingRows(apiKeys, Presented(a).keyId,
                                                Presented(a).keySecret) = {}) =>
                    Rejected(b, 401, "Invalid or inactive API key")
              /\ (VerifyStep(r) /\ b.pc # "done") =>
                    /\ b.verifiedKey \in MatchingRows(apiKeys, Presented(a).keyId,
                                                      Presented(a).keySecret)
                    /\ b.nextCalls = 0 /\ b.apiKey = NULL /\ b.res = NoResponse
              /\ (CheckStep(r) /\ Last(b.dbOps).ok
                  /\ Cardinality(RowsInTrailingHour(apiUsage, a.verifiedKey.id, now))
                        < a.verifiedKey.rate_limit_per_hour) =>
                    /\ b.pc = "done" /\ b.nextCalls = 1 /\ b.res = NoResponse
                    /\ b.apiKey = [id |-> a.verifiedKey.id,
                                   key_id |-> a.verifiedKey.key_id,
                                   name |-> a.verifiedKey.name,
                                   rate_limit_per_hour |-> a.verifiedKey.rate_limit_per_hour]
              /\ b.res.status = 401 => (b.nextCalls = 0 /\ b.apiKey = NULL)]_vars

\* C2 witness: a required-mode request has reached next() with the identity of
\* a stored credential attached.
C2_Witness ==
    \E r \in Reqs : /\ req[r].route = "required" /\ req[r].pc = "done"
                    /\ req[r].nextCalls = 1
                    /\ \E k \in apiKeys : req[r].apiKey = Identity(k)

\* C3: in both modes, when the rate-limit check of a verified credential
\* reports no capacity (its rows of the trailing hour have reached the limit,
\* or the count raised), the request is answered 429 with a message carrying
\* that credential's rate_limit_per_hour; next() is not called, so no handler
\* runs and an optional-mode request does not go on as anonymous.
C3_QuotaExceededIs429 ==
    [][\A r \in Reqs :
          LET a == req[r]
              b == req'[r]
          IN  /\ (CheckStep(r)
                  /\ (~Last(b.dbOps).ok
                      \/ Cardinality(RowsInTrailingHour(apiUsage, a.verifiedKey.id, now))
                            >= a.verifiedKey.rate_limit_per_hour)) =>
                    /\ b.pc = "done"
                    /\ b.res.status = 429
                    /\ b.res.error.limit = a.verifiedKey.rate_limit_per_hour
                    /\ b.nextCalls = 0
                    /\ b.apiKey = NULL
              /\ b.res.status = 429 =>
                    (b.pc = "done" /\ b.nextCalls = 0 /\ b.apiKey = NULL
                     /\ b.verifiedKey # NULL
                     /\ \A i \in DOMAIN b.dbOps : b.dbOps[i].op # "insert api_usage")]_vars

\* C3 witness: an optional-mode request of a credential whose rows of the
\* trailing hour have reached its limit has been answered 429.
C3_Witness ==
    \E r \in Reqs : /\ req[r].route = "analyze" /\ req[r].pc = "done"
                    /\ req[r].res.status = 429
                    /\ req[r].res.error.limit = 1
                    /\ Last(req[r].dbOps).ok
                    /\ Cardinality(RowsInTrailingHour(apiUsage, req[r].verifiedKey.id, now)) >= 1

\* C4: in optional mode a request without credential header, with a malformed
\* credential or with a credential that does not verify is not rejected:
\* next() is called, the middleware writes no response and req.apiKey stays
\* unset, up to the handler's response.
C4_OptionalFallsThrough ==
    [][\A r \in Reqs : req'[r].route # "required" =>
          LET a == req[r]
              b == req'[r]
              Anonymous == /\ b.pc = "handler" /\ b.nextCalls = 1
                           /\ b.res = NoResponse /\ b.apiKey = NULL
          IN  /\ (ReceiveStep(r) /\ (Falsy(b.header) \/ Presented(b) = NULL)) => Anonymous
              /\ (VerifyStep(r) /\ MatchingRows(apiKeys, Presented(a).keyId,
                                                Presented(a).keySecret) = {}) => Anonymous
              /\ (b.verifiedKey = NULL /\ b.pc \in {"handler", "log", "done"}) =>
                    /\ b.nextCalls = 1 /\ b.apiKey = NULL
                    /\ b.res.status \notin {401, 429}]_vars

\* C4 witness: an optional-mode request whose well-formed credential did not
\* verify has been handed to the handler without identity.
C4_Witness ==
    \E r \in Reqs : /\ req[r].route = "analyze" /\ req[r].pc = "handler"
                    /\ req[r].dbOps = <<DbOp("select api_keys", TRUE)>>
                    /\ req[r].verifiedKey = NULL /\ req[r].apiKey = NULL
                    /\ req[r].nextCalls = 1

\* The responses only a management route writes, never the guard.
RouteStatuses == {200, 201, 404, 500}

\* C5: the admin guard decides in this order: with no operator secret
\* configured every management request gets 500, whatever token it presents;
\* otherwise a request without token gets 401; otherwise a request with a
\* token other than the secret gets 403; only a request presenting the
\* configured secret reaches the management route.
C5_AdminGuardOrder ==
    admin.op # "none" =>
        IF ADMIN_TOKEN = Absent \/ ADMIN_TOKEN = Some(<<>>)
        THEN /\ ~admin.isAdmin /\ admin.res.status = 500
             /\ admin.res.error.text = "Admin authentication is not properly configured"
        ELSE IF admin.xAdminToken = Absent \/ admin.xAdminToken = Some(<<>>)
        THEN ~admin.isAdmin /\ admin.res.status = 401
        ELSE IF admin.xAdminToken # ADMIN_TOKEN
        THEN ~admin.isAdmin /\ admin.res.status = 403
        ELSE admin.isAdmin /\ admin.res.status \in RouteStatuses

\* C5 witness: with a secret configured, a request with another token has
\* been answered 403.
C5_Witness ==
    /\ admin.op = "delete" /\ ADMIN_TOKEN = Some(TokenA)
    /\ admin.xAdminToken = Some(TokenB) /\ admin.res.status = 403

\* C7: for every credential generateApiKey has produced, parsing the composite
\* string succeeds and gives the generated keyId, and the secret it gives
\* hashes to the generated keyHash.
C7_GeneratedKeyParses ==
    admin.generated # NULL =>
        LET parsed == parseApiKey(admin.generated.keySecret)
        IN  /\ parsed # NULL
            /\ parsed.keyId = admin.generated.keyId
            /\ Sha256Hex(parsed.keySecret) = admin.generated.keyHash

\* C7 witness: a credential has been generated and issued.
C7_Witness ==
    /\ admin.op = "create" /\ admin.res.status = 201
    /\ admin.generated # NULL
    /\ admin.data.api_key = admin.generated.keySecret

\* The rows of `usage` of one credential that are exactly n minutes old at t.
RowsAged(usage, apiKeyId, t, n) ==
    {i \in DOMAIN usage : usage[i].api_key_id = apiKeyId
                          /\ t - usage[i].request_timestamp = n}

\* C6: whenever its count returns, checkRateLimit(credentialId, limit) is true
\* exactly when the credential's usage rows with request_timestamp >= now - 60
\* minutes number strictly less than limit: rows more than 60 minutes old and
\* rows of other credentials do not count; with limit 100, 100 such rows give
\* false and 99 give true.
C6_CapacityIffCountBelowLimit ==
    [][\A r \in Reqs : (CheckStep(r) /\ Last(req'[r].dbOps).ok) =>
          LET vk == req[r].verifiedKey
              counted == Cardinality(RowsInTrailingHour(apiUsage, vk.id, now))
              hasCapacity == req'[r].res.status # 429 /\ req'[r].nextCalls = 1
          IN  /\ hasCapacity <=> counted < vk.rate_limit_per_hour
              /\ (vk.rate_limit_per_hour = 100 /\ counted = 100) => ~hasCapacity
              /\ (vk.rate_limit_per_hour = 100 /\ counted = 99) => hasCapacity]_vars

\* C6 witness: a credential of limit 100 with 99 rows inside the trailing
\* hour, rows 61 minutes old and another credential's rows beside them, has
\* been found to have capacity.
C6_Witness ==
    \E r \in Reqs :
        /\ req[r].pc = "done" /\ req[r].route = "required" /\ req[r].nextCalls = 1
        /\ req[r].verifiedKey.rate_limit_per_hour = 100
        /\ Cardinality(RowsInTrailingHour(apiUsage, req[r].verifiedKey.id, now)) = 99
        /\ RowsAged(apiUsage, req[r].verifiedKey.id, now, 61) # {}
        /\ \E i \in DOMAIN apiUsage : apiUsage[i].api_key_id # req[r].verifiedKey.id

\* C8: the response does not tell a keyId that does not exist from one that is
\* deactivated: when the lookup of a request completes, the request is left
\* exactly as it would be left were any one inactive row missing from
\* api_keys, and, if no row has the presented keyId, exactly as it would be
\* left were there an inactive row with that keyId and the digest of the
\* presented secret: same status and body in required mode, same anonymous
\* continuation in optional mode.
C8_AbsentAndInactiveAlike ==
    [][\A r \in Reqs : VerifyStep(r) =>
          LET dbThrows == ~Last(req'[r].dbOps).ok
              keyId == Presented(req[r]).keyId
              inactive == [id |-> nextKeyId, key_id |-> keyId,
                           key_hash |-> Sha256Hex(Presented(req[r]).keySecret),
                           name |-> "svc", is_active |-> FALSE,
                           rate_limit_per_hour |-> DefaultRateLimit]
          IN  /\ \A k \in apiKeys : ~k.is_active =>
                    req'[r] = AfterVerify(req[r], apiKeys \ {k}, dbThrows)
              /\ (\A k \in apiKeys : k.key_id # keyId) =>
                    req'[r] = AfterVerify(req[r], apiKeys \cup {inactive}, dbThrows)]_vars

\* C8 witness: a required-mode request presenting the keyId and secret of a
\* deactivated credential has been answered 401.
C8_Witness ==
    \E r \in Reqs :
        /\ req[r].route = "required" /\ req[r].pc = "done"
        /\ req[r].dbOps = <<DbOp("select api_keys", TRUE)>>
        /\ req[r].res = Response(401, Msg("Invalid or inactive API key"))
        /\ \E k \in apiKeys : /\ ~k.is_active
                              /\ k.key_id = Presented(req[r]).keyId
                              /\ k.key_hash = Sha256Hex(Presented(req[r]).keySecret)

\* The valid form of a credential: exactly three segments delimited by "_",
\* the first of them "yt".
WellFormed(h) ==
    /\ Len(h) >= 3 /\ h[1] = "y" /\ h[2] = "t" /\ h[3] = "_"
    /\ Cardinality({i \in DOMAIN h : h[i] = "_"}) = 2

\* C9: the steps run in the order header, parse, verify, quota check and stop
\* at the first that rejects: a request whose credential is missing or
\* malformed never touches the store, the lookup is a request's first store
\* access, the quota count is its second and follows only a lookup that
\* verified the credential, and a 401 ends the request before the count.
C9_PipelineOrder ==
    \A r \in Reqs :
        LET rq == req[r]
            ops == rq.dbOps
        IN  /\ (rq.header = Absent \/ ~WellFormed(rq.header[1])) => ops = <<>>
            /\ \A i \in DOMAIN ops :
                  /\ ops[i].op = "select api_keys" => i = 1
                  /\ ops[i].op = "count api_usage" =>
                        /\ i = 2
                        /\ ops[1] = DbOp("select api_keys", TRUE)
                        /\ rq.verifiedKey # NULL
                  /\ ops[i].op = "insert api_usage" =>
                        (i = 3 /\ ops[2] = DbOp("count api_usage", TRUE))
            /\ rq.pc = "verify" => ops = <<>>
            /\ rq.pc = "quota" => Len(ops) = 1
            /\ rq.res.status = 401 => (Len(ops) <= 1 /\ rq.pc = "done")
            /\ rq.res.status = 429 => (Len(ops) = 2 /\ rq.pc = "done")

\* C9 witness: a required-mode request with a malformed credential of four
\* segments has been rejected without store access.
C9_Witness ==
    \E r \in Reqs :
        /\ req[r].pc = "done" /\ req[r].route = "required"
        /\ req[r].header # Absent /\ Len(req[r].header[1]) > 3
        /\ StartsWith(req[r].header[1], <<"y", "t", "_">>)
        /\ Cardinality({i \in DOMAIN req[r].header[1] : req[r].header[1][i] = "_"}) = 3
        /\ req[r].dbOps = <<>>
        /\ req[r].res.status = 401

\* C10: when the store raises during the lookup, verification fails closed:
\* verifyApiKey returns null, required mode answers 401 with the message for
\* an invalid or inactive key, and no identity is attached to the request then
\* or later, also when the presented credential is valid.
C10_LookupErrorFailsClosed ==
    [][\A r \in Reqs :
          LET b == req'[r]
          IN  /\ (VerifyStep(r) /\ ~Last(b.dbOps).ok) =>
                    /\ b.verifiedKey = NULL
                    /\ b.apiKey = NULL
                    /\ b.route = "required" => Rejected(b, 401, "Invalid or inactive API key")
              /\ (b.dbOps # <<>> /\ ~b.dbOps[1].ok) =>
                    (b.verifiedKey = NULL /\ b.apiKey = NULL /\ Len(b.dbOps) = 1)]_vars

\* C10 witness: a required-mode request presenting a valid credential has been
\* answered 401 because the lookup raised.
C10_Witness ==
    \E r \in Reqs :
        /\ req[r].route = "required" /\ req[r].pc = "done"
        /\ req[r].dbOps = <<DbOp("select api_keys", FALSE)>>
        /\ req[r].res = Response(401, Msg("Invalid or inactive API key"))
        /\ MatchingRows(apiKeys, Presented(req[r]).keyId, Presented(req[r]).keySecret) # {}

LogStep(r) == req[r].pc = "log" /\ req'[r].pc = "done"

\* C11: a failure of the usage-record insert never fails the request: when
\* the insert of logApiUsage returns or raises, the handler sends the status
\* and body it had prepared before the write (200, or the 500 of a failed
\* extraction), and the request is left as the other outcome of the insert
\* would leave it, the record of the insert apart.
C11_UsageWriteNeverFailsRequest ==
    [][\A r \in Reqs : LogStep(r) =>
          LET inserted == Last(req'[r].dbOps).ok
              other == analyzeRespond(req[r], ~inserted)
          IN  /\ req'[r].res = req[r].pending
              /\ req'[r].res.status \in {200, 500}
              /\ [req'[r] EXCEPT !.dbOps = <<>>] = [other EXCEPT !.dbOps = <<>>]]_vars

\* C11 witness: an authenticated analyze request has been answered 200 although
\* its usage insert raised.
C11_Witness ==
    \E r \in Reqs :
        /\ req[r].pc = "done" /\ req[r].route = "analyze" /\ req[r].apiKey # NULL
        /\ req[r].dbOps # <<>> /\ Last(req[r].dbOps) = DbOp("insert api_usage", FALSE)
        /\ req[r].res = Response(200, Msg(""))

\* The rows of api_keys a step removes.
Removed == {k \in apiKeys : \A k2 \in apiKeys' : k2.id # k.id}

\* C12: a delete that succeeds leaves no usage row referencing the deleted
\* credential and leaves the usage rows of every other credential as they
\* were, in their order; rows leave api_keys by no other step, a delete that
\* answers 200 has removed a row, and no usage row ever references a
\* credential that is not stored.
C12_DeleteCascadesUsage ==
    [][LET KeptRow(u) == \A k \in Removed : u.api_key_id # k.id
       IN  /\ Removed # {} =>
                /\ admin'.op = "delete" /\ admin'.res = Response(200, Msg(""))
                /\ \A k \in Removed :
                      /\ k.key_id \notin {k2.key_id : k2 \in apiKeys'}
                      /\ countUsageSince(apiUsage', k.id, 0 - DayMinutes) = 0
                      /\ \A i \in DOMAIN apiUsage' : apiUsage'[i].api_key_id # k.id
                /\ apiUsage' = SelectSeq(apiUsage, KeptRow)
           /\ (admin' # admin /\ admin'.op = "delete" /\ admin'.res.status = 200)
                => Removed # {}
           /\ \A i \in DOMAIN apiUsage' :
                \E k \in apiKeys' : k.id = apiUsage'[i].api_key_id]_vars

\* C12 witness: one of two credentials that both had usage rows has been
\* deleted, and the rows left are those of the other.
C12_Witness ==
    /\ admin.op = "delete" /\ admin.res = Response(200, Msg(""))
    /\ Cardinality(apiKeys) = 1
    /\ \E i \in issued : \A k \in apiKeys : k.id # i.id
    /\ apiUsage # <<>>
    /\ \A i \in DOMAIN apiUsage : \E k \in apiKeys : k.id = apiUsage[i].api_key_id

\* C13: while the row of a credential is inactive, every verification of that
\* credential fails: the lookup returns null, required mode answers 401,
\* optional mode continues anonymously, and no identity is attached.  A row's
\* is_active changes only by an update that answers 200, which touches
\* nothing else of the row and no row of api_usage; so verification fails
\* from the update that deactivates until an update that reactivates.
C13_DeactivationBlocksKeepsHistory ==
    [][/\ \A r \in Reqs :
            (VerifyStep(r)
             /\ \E k \in apiKeys : k.key_id = Presented(req[r]).keyId /\ ~k.is_active)
            => /\ req'[r].verifiedKey = NULL
               /\ req'[r].apiKey = NULL
               /\ req[r].route = "required" =>
                      Rejected(req'[r], 401, "Invalid or inactive API key")
               /\ req[r].route # "required" =>
                      (req'[r].pc = "handler" /\ req'[r].res = NoResponse)
       /\ \A k \in apiKeys, k2 \in apiKeys' :
            (k2.id = k.id /\ k2.is_active # k.is_active)
            => /\ admin'.op = "update" /\ admin'.res = Response(200, Msg(""))
               /\ k2 = [k EXCEPT !.is_active = ~k.is_active]
               /\ apiUsage' = apiUsage]_vars

\* C13 witness: the operator has deactivated a credential that has usage rows,
\* the rows are still stored, and a required-mode request presenting the
\* credential issued for it has been answered 401.
C13_Witness ==
    \E r \in Reqs, k \in apiKeys, i \in issued :
        /\ ~k.is_active /\ i.id = k.id
        /\ admin.op = "update" /\ admin.res = Response(200, Msg(""))
        /\ countUsageSince(apiUsage, k.id, 0 - DayMinutes) > 0
        /\ req[r].header = Some(i.api_key)
        /\ req[r].dbOps = <<DbOp("select api_keys", TRUE)>>
        /\ Rejected(req[r], 401, "Invalid or inactive API key")

\* The step in which POST /api/keys answers 201.
CreateStep == admin' # admin /\ admin'.op = "create" /\ admin'.res.status = 201

\* C14: a create that answers 201 adds exactly one row to api_keys and changes
\* nothing else of the store; the row holds the keyId of the returned
\* composite and the digest of its secret portion, not the composite, not the
\* secret; rows are added by no other step; and in every later state in
\* which the row is stored and active, the composite verifies: after each
\* step that changes api_keys verifyApiKey returns the row for it, and it
\* returns the row to each request that presents it.
C14_CreateStoresDigestAndVerifies ==
    [][/\ CreateStep =>
            LET composite == admin'.data.api_key
                parsed == parseApiKey(composite)
            IN  /\ apiKeys \subseteq apiKeys'
                /\ Cardinality(apiKeys' \ apiKeys) = 1
                /\ apiUsage' = apiUsage
                /\ parsed # NULL
                /\ \A k \in apiKeys' \ apiKeys :
                      /\ DOMAIN k = {"id", "key_id", "key_hash", "name", "is_active",
                                     "rate_limit_per_hour"}
                      /\ k.is_active
                      /\ k.key_id = parsed.keyId
                      /\ k.key_hash = Sha256Hex(parsed.keySecret)
                      /\ k.key_hash \notin {composite, parsed.keySecret}
                      /\ k.key_id \notin {composite, parsed.keySecret}
                      /\ KeyView(k) = admin'.data.key
                      /\ issued' = issued \cup {[id |-> k.id, api_key |-> composite]}
       /\ ~({k.id : k \in apiKeys'} \subseteq {k.id : k \in apiKeys}) => CreateStep
       /\ (apiKeys' # apiKeys \/ issued' # issued) =>
            \A i \in issued' : \A k \in apiKeys' :
                (k.id = i.id /\ k.is_active)
                => verifyApiKey(apiKeys', parseApiKey(i.api_key).keyId,
                                parseApiKey(i.api_key).keySecret, FALSE) = k
       /\ \A r \in Reqs : (VerifyStep(r) /\ Last(req'[r].dbOps).ok) =>
            \A i \in issued : \A k \in apiKeys :
                (req[r].header = Some(i.api_key) /\ k.id = i.id /\ k.is_active)
                => req'[r].verifiedKey = k]_vars

\* C14 witness: a credential was created, the operator has since updated its
\* row, the row is active, and a request presenting the composite the create
\* returned has been verified against it.
C14_Witness ==
    \E r \in Reqs, i \in issued, k \in apiKeys :
        /\ k.id = i.id /\ k.is_active
        /\ admin.op = "update" /\ admin.res.status = 200
        /\ req[r].header = Some(i.api_key)
        /\ req[r].dbOps # <<>> /\ req[r].dbOps[1] = DbOp("select api_keys", TRUE)
        /\ req[r].verifiedKey = k

\* The credential strings of a record of a response body.
CredentialFields(v) == {v[f] : f \in DOMAIN v \cap {"api_key", "key_id", "key_hash"}}

\* The credential strings a management response carries.
Carried(data) ==
    IF data = NULL THEN {}
    ELSE CredentialFields(data)
         \cup UNION {CredentialFields(data[f]) : f \in DOMAIN data \cap {"key"}}
         \cup UNION {UNION {CredentialFields(kv.key) : kv \in data[f]} :
                         f \in DOMAIN data \cap {"keys"}}
         \cup UNION {UNION {CredentialFields(row) : row \in data[f]} :
                         f \in DOMAIN data \cap {"rows"}}

\* The strings no response but that of the issuing create may carry: the
\* composites issued, their secret portions, and the stored digests.
Secrets ==
    {i.api_key : i \in issued}
    \cup {parseApiKey(i.api_key).keySecret : i \in issued}
    \cup {k.key_hash : k \in apiKeys}

\* C15: a composite secret is carried only by the 201 response of the create
\* that issued it, and the response of no other management operation carries
\* a composite, a secret or a stored key_hash.
C15_SecretOnlyInCreateResponse ==
    /\ (admin.op = "create" /\ admin.res.status = 201)
          => Carried(admin.data) \cap Secrets = {admin.generated.keySecret}
    /\ ~(admin.op = "create" /\ admin.res.status = 201)
          => Carried(admin.data) \cap Secrets = {}

\* C16: the management routes admit a request that carries the configured
\* operator secret as `Authorization: Bearer <token>` and no X-Admin-Token
\* header, as they admit one that carries it in X-Admin-Token.
C16_BearerTokenAdmitted ==
    (/\ admin.op \in {"create", "list", "delete", "update"}
     /\ ~Falsy(ADMIN_TOKEN)
     /\ admin.authorization = Some(Bearer(ADMIN_TOKEN[1]))
     /\ admin.xAdminToken = Absent)
    => /\ admin.isAdmin
       /\ admin.res.status \notin {401, 403}

\* C17: a request whose body fails schema validation or whose URL is not a
\* video URL is answered 400 on the analyze endpoints, and a create whose
\* body fails validation is answered 400.
C17_MalformedRequestIs400 ==
    /\ \A r \in Reqs :
          (req[r].pc = "done" /\ req[r].body \in {"schema_invalid", "not_video"})
          => req[r].res.status = 400
    /\ (admin.op = "create" /\ admin.res.error = Msg("error.message of ZodError"))
          => admin.res.status = 400

\* The messages the code writes as literals.
CallerSafeMessages ==
    {"", "API key required. Include 'X-API-Key' header with your request.",
     "Invalid API key format", "Invalid or inactive API key",
     "Rate limit exceeded. Maximum ${rate_limit_per_hour} requests per hour.",
     "Admin authentication is not properly configured",
     "Admin token required. Include 'X-Admin-Token' header with your request.",
     "Invalid admin token", "Unauthorized", "Invalid YouTube URL",
     "Failed to list API keys", "API key not found", "Failed to delete API key",
     "Failed to update API key", "Failed to create API key",
     "Failed to analyze video", "Failed to analyze playlist"}

\* C18: the error field of every response is one of the fixed caller-safe
\* messages, never the message of a caught exception.
C18_ErrorFieldIsCallerSafe ==
    /\ \A r \in Reqs : req[r].res.error.text \in CallerSafeMessages
    /\ admin.res.error.text \in CallerSafeMessages

\* C19: the admin guard compares the presented token with the configured
\* secret over their whole length, as timingSafeEqual does: a comparison that
\* fails on tokens of the configured length reads as many code units as one
\* that succeeds, wherever the first difference is.
C19_AdminCompareIsConstantTime ==
    (/\ admin.op \in {"create", "list", "delete", "update"}
     /\ admin.res.status = 403
     /\ Len(admin.xAdminToken[1]) = Len(ADMIN_TOKEN[1]))
    => admin.examined = Len(ADMIN_TOKEN[1])

\* The requests that hold an identity of this key and have not yet reached
\* the end of their usage write.
InFlight(apiKeyId) ==
    {r \in Reqs : /\ req[r].pc \in {"handler", "log"}
                  /\ req[r].apiKey # NULL
                  /\ req[r].apiKey.id = apiKeyId}

\* C20: the quota check reads the stored usage rows alone: a request whose
\* count returns while the trailing-hour count of its key is below the limit
\* is authorized, whatever requests of the same key have been authorized and
\* not yet logged; the rows in the window can so exceed the limit, by no more
\* than the requests in flight at a time allow.
C20_CheckAndLogNotAtomic ==
    [][/\ \A r \in Reqs :
            (CheckStep(r) /\ Last(req'[r].dbOps).ok)
            => LET vk == req[r].verifiedKey
                   n == Cardinality(RowsInTrailingHour(apiUsage, vk.id, now))
               IN  (req'[r].apiKey # NULL) = (n < vk.rate_limit_per_hour)
       /\ \A k \in apiKeys' :
            Cardinality(RowsInTrailingHour(apiUsage', k.id, now'))
               <= k.rate_limit_per_hour + Cardinality(Reqs) - 1]_vars

\* C20 witness: two requests of one credential, which both began with the
\* count one below the limit, have both been authorized, answered 200 and
\* logged, and the rows in the window outnumber the limit.
C20_Witness ==
    \E k \in apiKeys :
        /\ Cardinality(RowsInTrailingHour(apiUsage, k.id, now)) > k.rate_limit_per_hour
        /\ \A r \in Reqs :
              /\ req[r].pc = "done" /\ req[r].res = Response(200, Msg(""))
              /\ req[r].apiKey # NULL /\ req[r].apiKey.id = k.id
              /\ Last(req[r].dbOps) = DbOp("insert api_usage", TRUE)

\* The usage writes a request has issued, whether the insert succeeded or not.
UsageWrites(rq) ==
    {i \in DOMAIN rq.dbOps : rq.dbOps[i].op = "insert api_usage"}

\* C21: every request to POST /api/analyze or POST /api/analyze-playlist
\* whose credential was verified has, once it is answered, issued exactly one
\* usage write for that credential, whatever the status of the answer (200,
\* 400, 429 or 500).
C21_EveryVerifiedAttemptLogsOnce ==
    \A r \in Reqs :
        (/\ req[r].pc = "done"
         /\ req[r].route \in {"analyze", "playlist"}
         /\ req[r].verifiedKey # NULL)
        => Cardinality(UsageWrites(req[r])) = 1

(***************************************************************************)
(* SpecOps with the scheduling the runtime gives a request whose store     *)
(* reads return: the continuation of a settled await runs, so the lookup,  *)
(* the count and the handler are taken once they can be.  Nothing is       *)
(* assumed of the insert of logApiUsage, which may stay pending.           *)
(***************************************************************************)
FairOps ==
    \A r \in Reqs :
        /\ WF_vars(Verify(r, TRUE) \/ Verify(r, FALSE))
        /\ WF_vars(\E dbThrows \in BOOLEAN : CheckQuota(r, dbThrows))
        /\ WF_vars(\E body \in Bodies, fetch \in Fetches : Handle(r, body, fetch))

SpecOpsLive == SpecOps /\ FairOps

\* C22: a request whose handler has prepared its response and issued the
\* usage write is answered whether or not the insert ever completes: the
\* response does not wait on the usage write.
C22_ResponseDoesNotWaitOnUsageWrite ==
    \A r \in Reqs : (req[r].pc = "log") ~> (req[r].res # NoResponse)

\* The store raised on the given read of an answered request.
ReadFailed(rq, op) ==
    \E i \in DOMAIN rq.dbOps : rq.dbOps[i] = DbOp(op, FALSE)

\* C23: a request whose store read raised on a security-deciding path is
\* answered 401 and not admitted: the lookup of authenticateApiKey, and in
\* both middlewares the count of the quota check of a verified credential.
C23_StoreErrorIs401 ==
    \A r \in Reqs :
        (/\ req[r].pc = "done"
         /\ \/ Required(req[r]) /\ ReadFailed(req[r], "select api_keys")
            \/ ReadFailed(req[r], "count api_usage"))
        => /\ req[r].res.status = 401
           /\ req[r].apiKey = NULL
           /\ req[r].nextCalls = 0

\* C24: every stored credential has rate_limit_per_hour > 0 after any create
\* and update: a create whose body carries a limit below 1 stores nothing and
\* is not answered 201, a create whose body carries no limit stores 100, and
\* an update whose body carries no limit or one that is not positive leaves
\* the limit of every stored credential as it was.
C24_RateLimitStaysPositive ==
    [][/\ \A k \in apiKeys' : k.rate_limit_per_hour > 0
       /\ \A body \in CreateBodies, idBytes \in randomBytes(KeyIdBytes),
             secretBytes \in randomBytes(SecretBytes), dbThrows \in BOOLEAN :
            (/\ admin'.op = "create" /\ admin'.isAdmin
             /\ (apiKeys' # apiKeys \/ admin'.res.status = 201)
             /\ CreateKey(Absent, Some(TokenA), body, idBytes, secretBytes, dbThrows))
            => /\ (body.rate_limit_per_hour # Absent /\ body.rate_limit_per_hour[1] < 1)
                  => (apiKeys' = apiKeys /\ admin'.res.status # 201)
               /\ (body.rate_limit_per_hour = Absent /\ admin'.res.status = 201)
                  => /\ admin'.data.key.rate_limit_per_hour = DefaultRateLimit
                     /\ \E k \in apiKeys' \ apiKeys :
                           k.rate_limit_per_hour = DefaultRateLimit
       /\ \A keyId \in KeyIdSamples, body \in PatchBodies, dbThrows \in BOOLEAN :
            (/\ admin'.op = "update" /\ admin'.isAdmin /\ apiKeys' # apiKeys
             /\ \/ body.rate_limit_per_hour = Absent
                \/ body.rate_limit_per_hour[1] <= 0
             /\ UpdateKey(Absent, Some(TokenA), keyId, body, dbThrows))
            => \A k \in apiKeys : \E k2 \in apiKeys' :
                  k2.id = k.id /\ k2.rate_limit_per_hour = k.rate_limit_per_hour]_vars

\* C24 witness: a credential created without a limit stands at 100 after an
\* update that was answered 200 and carried no positive limit.
C24_Witness ==
    /\ admin.op = "update" /\ admin.res.status = 200
    /\ admin.data.key.rate_limit_per_hour = DefaultRateLimit
    /\ \E k \in apiKeys : k.id = admin.data.key.id
                          /\ k.rate_limit_per_hour = DefaultRateLimit

(***************************************************************************)
(* The management routes under every pair of headers and every setting of  *)
(* the operator secret, next to requests that present an issued            *)
(* credential, none or a malformed one to the pipeline, with every store   *)
(* failure and every outcome of the extraction.                            *)
(***************************************************************************)
NextGuarded ==
    \/ \E authorization \in AuthorizationHeaders, adminToken \in AdminTokenHeaders :
          \/ CreateKey(authorization, adminToken,
                       [name |-> Some("svc"), rate_limit_per_hour |-> Some(1)],
                       [i \in 1..KeyIdBytes |-> 171], [i \in 1..SecretBytes |-> 171], FALSE)
          \/ ListKeys(authorization, adminToken, FALSE)
          \/ \E keyId \in KeyIdSamples : DeleteKey(authorization, adminToken, keyId, FALSE)
          \/ \E keyId \in KeyIdSamples, active \in BOOLEAN :
                UpdateKey(authorization, adminToken, keyId,
                          [is_active |-> Some(active), rate_limit_per_hour |-> Absent], FALSE)
    \/ Requests(1, Routes, {Absent, Some(Garbage)} \cup {Some(i.api_key) : i \in issued},
                {"valid"}, Fetches)

SpecGuarded == Init /\ [][NextGuarded]_vars

\* C25: the rows of api_keys change only in a step of a management request
\* that carried the configured operator secret: a management request the
\* guard answers 500, 401 or 403 leaves them as they were, and so does every
\* step of a request through the pipeline (parse, lookup, quota check,
\* handler, usage write).
C25_OnlyAdminChangesCredentials ==
    [][/\ (apiKeys' # apiKeys)
          => /\ req' = req
             /\ admin'.op \in {"create", "update", "delete"}
             /\ admin'.isAdmin /\ admin'.res.status \in {200, 201}
             /\ ~Falsy(ADMIN_TOKEN) /\ admin'.xAdminToken = ADMIN_TOKEN
       /\ (req' # req) => (apiKeys' = apiKeys /\ nextKeyId' = nextKeyId)
       /\ (admin' # admin /\ ~admin'.isAdmin)
          => /\ admin'.res.status \in {500, 401, 403}
             /\ apiKeys' = apiKeys /\ nextKeyId' = nextKeyId /\ apiUsage' = apiUsage]_vars

\* C25 witness: a credential is stored, a request presenting it has been
\* authorized and answered, and a delete carrying another token has been
\* answered 403; the credential is stored as it was issued.
C25_Witness ==
    /\ admin.op = "delete" /\ ~admin.isAdmin /\ admin.res.status = 403
    /\ req[1].pc = "done" /\ req[1].apiKey # NULL /\ req[1].res.status = 200
    /\ \E k \in apiKeys : k.id = req[1].apiKey.id /\ k.is_active
                          /\ k = req[1].verifiedKey

(***************************************************************************)
(* The window over time: one credential whose usage rows of 40 and of 20   *)
(* minutes ago fill its limit, two requests that present it, and the       *)
(* clock.  No management request is made and no row is deleted.            *)
(***************************************************************************)
InitRoll ==
    /\ \E limit \in {1, 2}, older \in {0, 1, 2}, newer \in {0, 1} :
          /\ older + newer <= MaxUsage - 1
          /\ apiKeys = {SeededKey(1, 171, 171, limit)}
          /\ apiUsage = SeededRows(1, older, 0 - 40) \o SeededRows(1, newer, 0 - 20)
    /\ nextKeyId = 2
    /\ now = 0
    /\ ADMIN_TOKEN = Some(TokenA)
    /\ req = [r \in Reqs |-> IdleReq]
    /\ admin = NoAdmin
    /\ issued = {SeededIssue(1, 171, 171)}

NextRoll ==
    \/ \E r \in Reqs :
          Requests(r, {"analyze"}, {Some(i.api_key) : i \in issued}, {"valid"}, {"ok"})
    \/ Tick

SpecRoll == InitRoll /\ [][NextRoll]_vars

\* The usage rows of a credential, and those older than 60 minutes at time t.
RowsOf(usage, apiKeyId) ==
    {i \in DOMAIN usage : usage[i].api_key_id = apiKeyId}

RowsPastWindow(usage, apiKeyId, t) ==
    {i \in RowsOf(usage, apiKeyId) : t - usage[i].request_timestamp > WindowMinutes}

\* C26: the quota window rolls.  A request whose count returns is answered
\* 429 exactly when the rows of its credential that have not aged past 60
\* minutes number at least the limit, whatever the minute of the hour; the
\* passing of time deletes no row and needs no management request, and a
\* credential over its limit is admitted again once enough rows have aged.
C26_WindowRolls ==
    [][/\ \A r \in Reqs :
            (CheckStep(r) /\ Last(req'[r].dbOps).ok)
            => LET vk == req[r].verifiedKey
                   stored == Cardinality(RowsOf(apiUsage, vk.id))
                   aged == Cardinality(RowsPastWindow(apiUsage, vk.id, now))
               IN  /\ (req'[r].res.status = 429) <=> (stored - aged >= vk.rate_limit_per_hour)
                   /\ (req'[r].apiKey # NULL) <=> (stored - aged < vk.rate_limit_per_hour)
       /\ (now' # now) => (apiUsage' = apiUsage /\ apiKeys' = apiKeys /\ admin' = admin)
       /\ \A i \in DOMAIN apiUsage : i \in DOMAIN apiUsage' /\ apiUsage'[i] = apiUsage[i]]_vars

\* C26 witness: of two requests of one credential the first was answered 429
\* and the second, half an hour later and not on the hour, has been admitted;
\* the rows that filled the limit are all still stored, no row was added and
\* no management request was made.
C26_Witness ==
    /\ req[1].pc = "done" /\ req[1].res.status = 429
    /\ req[2].pc = "handler" /\ req[2].apiKey # NULL
    /\ req[2].verifiedKey = req[1].verifiedKey
    /\ now % WindowMinutes # 0
    /\ admin = NoAdmin
    /\ \E limit \in {1, 2}, older \in {1, 2} :
          /\ older >= limit
          /\ req[2].apiKey.rate_limit_per_hour = limit
          /\ apiUsage = SeededRows(1, older, 0 - 40)

(***************************************************************************)
(* Two credentials under load over time.  The first is presented by one    *)
(* client that sends a request only when its previous one is answered, so  *)
(* its requests are handled one at a time; the second is presented by two  *)
(* clients at once.  The first may start with its limit filled by rows of  *)
(* 40 minutes ago.                                                         *)
(***************************************************************************)
LaneLimits == 1..(MaxUsage - 2)

InitLanes ==
    /\ \E l1 \in LaneLimits, l2 \in LaneLimits, older \in {0, 1} :
          /\ apiKeys = {SeededKey(1, 171, 171, l1), SeededKey(2, 95, 95, l2)}
          /\ apiUsage = SeededRows(1, older * l1, 0 - 40)
    /\ nextKeyId = 3
    /\ now = 0
    /\ ADMIN_TOKEN = Some(TokenA)
    /\ req = [r \in Reqs |-> IdleReq]
    /\ admin = NoAdmin
    /\ issued = {SeededIssue(1, 171, 171), SeededIssue(2, 95, 95)}

NextLanes ==
    \/ Requests(1, {"analyze"}, {Some(i.api_key) : i \in issued}, {"valid"}, {"ok"})
    \/ Requests(2, {"analyze"}, {Some(SeededIssue(2, 95, 95).api_key)}, {"valid"}, {"ok"})
    \/ Tick

SpecLanes == InitLanes /\ [][NextLanes]_vars

\* The usage rows of a credential inside the 60 minutes that end at minute w.
RowsInWindow(usage, apiKeyId, w) ==
    {i \in DOMAIN usage : /\ usage[i].api_key_id = apiKeyId
                          /\ usage[i].request_timestamp <= w
                          /\ w - usage[i].request_timestamp <= WindowMinutes}

\* The minutes at which a 60-minute window can end with a row count no
\* other window exceeds: a window holds no more rows than the one that ends
\* at its latest row.
WindowEnds(usage, t) ==
    {usage[i].request_timestamp : i \in DOMAIN usage} \cup {t}

\* C27: the usage rows of a credential whose requests are handled one at a
\* time never number more than its rate_limit_per_hour inside any 60-minute
\* window; those of a credential with at most K requests between quota check
\* and usage write at a time never number more than the limit + K - 1.
C27_WindowBoundedByLimitPlusInFlight ==
    \A k \in apiKeys : \A w \in WindowEnds(apiUsage, now) :
        LET n == Cardinality(RowsInWindow(apiUsage, k.id, w))
        IN  /\ (k.id = 1) => n <= k.rate_limit_per_hour
            /\ (k.id = 2) => n <= k.rate_limit_per_hour + Cardinality(Reqs) - 1

\* C27 witness: the credential handled one at a time, which began with its
\* limit filled, has been admitted again after those rows aged and stands at
\* its limit inside the window, with more rows than the limit stored.
C27_Witness ==
    \E k \in apiKeys :
        /\ k.id = 1
        /\ Cardinality(RowsInWindow(apiUsage, 1, now)) = k.rate_limit_per_hour
        /\ Cardinality(RowsOf(apiUsage, 1)) > k.rate_limit_per_hour
        /\ req[1].pc = "done" /\ req[1].apiKey # NULL /\ req[1].apiKey.id = 1
        /\ Last(req[1].dbOps) = DbOp("insert api_usage", TRUE)

\* The credential a request was authorized under is no longer stored.
CredentialGone(rq) ==
    rq.apiKey # NULL /\ \A k \in apiKeys : k.id # rq.apiKey.id

\* C28: however a delete falls among the steps of an authorized request of
\* the same credential, every usage row references a stored credential, the
\* delete leaves the request as it was, the handler prepares the response it
\* would have prepared, and a usage write made after the delete inserts
\* nothing, is absorbed, and is followed by that response.
C28_DeleteRacesInFlightRequest ==
    [][/\ \A i \in DOMAIN apiUsage' :
             \E k \in apiKeys' : k.id = apiUsage'[i].api_key_id
       /\ (Removed # {}) => (req' = req)
       /\ \A r \in Reqs :
            /\ (req[r].pc = "handler" /\ req[r].apiKey # NULL /\ req'[r] # req[r])
               => (req'[r].pc = "log" /\ req'[r].pending = Response(200, Msg("")))
            /\ (LogStep(r) /\ CredentialGone(req[r]))
               => /\ apiUsage' = apiUsage
                  /\ Last(req'[r].dbOps) = DbOp("insert api_usage", FALSE)
                  /\ req'[r].res = req[r].pending
                  /\ req'[r].res = Response(200, Msg(""))]_vars

\* C28 witness: a credential was deleted while a request authorized under it
\* was in flight; the request's usage write failed, the request was answered
\* 200, and the rows stored are those of the credential that is left.
C28_Witness ==
    /\ admin.op = "delete" /\ admin.res = Response(200, Msg(""))
    /\ req[1].pc = "done" /\ req[1].route = "analyze" /\ CredentialGone(req[1])
    /\ req[1].res = Response(200, Msg(""))
    /\ Last(req[1].dbOps) = DbOp("insert api_usage", FALSE)
    /\ apiUsage # <<>>
    /\ \A i \in DOMAIN apiUsage : \E k \in apiKeys : k.id = apiUsage[i].api_key_id

\* The middleware of a request has ended: it has written its response, or
\* called next() and written none.
Responded(rq, statuses) ==
    rq.nextCalls = 0 /\ rq.res # NoResponse /\ rq.res.status \in statuses

Continued(rq) == rq.nextCalls = 1 /\ rq.res = NoResponse

\* C29: each of authenticateApiKey, optionalAuthentication and
\* authenticateAdmin, once its store calls have returned or raised, has done
\* exactly one of two things: written one response (401 or 429 from the two
\* credential middlewares, 500, 401 or 403 from the admin guard) or called
\* next() once.  Between its awaits it has done neither, and nothing after
\* it calls next() again.
C29_MiddlewareRespondsOrContinues ==
    [][/\ \A r \in Reqs :
            LET b == req'[r]
            IN  /\ (ReceiveStep(r) \/ VerifyStep(r) \/ CheckStep(r))
                   => /\ VerifyStep(r) => b.pc \in {"quota", "done", "handler"}
                      /\ CheckStep(r) => b.pc \in {"done", "handler"}
                      /\ b.pc \in {"verify", "quota"}
                            => (b.nextCalls = 0 /\ b.res = NoResponse)
                      /\ b.pc \in {"done", "handler"}
                            => /\ Responded(b, {401, 429}) \/ Continued(b)
                               /\ ~(Responded(b, {401, 429}) /\ Continued(b))
                      /\ Responded(b, {401, 429}) => b.pc = "done"
                /\ req[r].pc \in {"handler", "log"} => b.nextCalls = req[r].nextCalls
                /\ b.nextCalls <= 1
       /\ \A adminToken \in AdminTokenHeaders :
            LET guard == authenticateAdmin(adminToken, ADMIN_TOKEN)
            IN  /\ guard.isAdmin <=> guard.res = NoResponse
                /\ ~guard.isAdmin => guard.res.status \in {500, 401, 403}
       /\ (admin'.op # "none" /\ ~admin'.isAdmin)
            => (admin'.res.status \in {500, 401, 403} /\ admin'.data = NULL)]_vars

\* C29 witness: a request through authenticateApiKey has ended with next()
\* called once and no response written by the middleware, after both of its
\* store calls returned, and a management request has been answered 403 by
\* the guard.
C29_Witness ==
    /\ Required(req[1]) /\ req[1].pc = "done" /\ Continued(req[1])
    /\ req[1].apiKey # NULL
    /\ req[1].dbOps = <<DbOp("select api_keys", TRUE), DbOp("count api_usage", TRUE)>>
    /\ ~admin.isAdmin /\ admin.res.status = 403

(***************************************************************************)
(* Two stored credentials and requests in both modes that present none, a  *)
(* malformed one, either credential as issued, or the keyId of one with    *)
(* the secret of the other; the operator deactivates, reactivates and      *)
(* deletes the credentials meanwhile, and every store read may raise.      *)
(***************************************************************************)
CrossedHeaders ==
    {Some(Composite(parseApiKey(i.api_key).keyId, parseApiKey(j.api_key).keySecret)) :
        i \in issued, j \in issued}

NextIdentity ==
    \/ Requests(1, {"required", "analyze"}, {Absent, Some(Garbage)} \cup CrossedHeaders,
                {"valid"}, Fetches)
    \/ \E keyId \in KeyIdSamples : DeleteKey(Absent, Some(TokenA), keyId, FALSE)
    \/ \E keyId \in KeyIdSamples, active \in BOOLEAN :
          UpdateKey(Absent, Some(TokenA), keyId,
                    [is_active |-> Some(active), rate_limit_per_hour |-> Absent], FALSE)

SpecIdentity == InitStore /\ [][NextIdentity]_vars

\* A request has passed every stage of its middleware: its header is present
\* and parses, the lookup returned a row, and the count returned with
\* capacity, so that next() was called after it.
Authorized(rq) ==
    /\ ~Falsy(rq.header) /\ Presented(rq) # NULL
    /\ rq.verifiedKey # NULL
    /\ Len(rq.dbOps) >= 2
    /\ rq.dbOps[1] = DbOp("select api_keys", TRUE)
    /\ rq.dbOps[2] = DbOp("count api_usage", TRUE)
    /\ rq.nextCalls = 1

\* C30: in both modes req.apiKey is set exactly for the requests that
\* reached the authorized state, and holds id, key_id, name and
\* rate_limit_per_hour of the row the lookup returned, which was stored and
\* active under the presented keyId with the digest of the presented secret;
\* a usage row is written only by such a request, under that row's id.
C30_IdentityIsTheVerifiedCredential ==
    [][/\ \A r \in Reqs :
            LET b == req'[r]
            IN  /\ (b.apiKey # NULL) <=> Authorized(b)
                /\ (b.apiKey # NULL)
                   => /\ b.apiKey = Identity(b.verifiedKey)
                      /\ b.verifiedKey.key_id = Presented(b).keyId
                      /\ b.verifiedKey.key_hash = Sha256Hex(Presented(b).keySecret)
                /\ (VerifyStep(r) /\ b.verifiedKey # NULL)
                   => (b.verifiedKey \in apiKeys /\ b.verifiedKey.is_active)
       /\ (Len(apiUsage') > Len(apiUsage))
          => \E r \in Reqs :
                /\ LogStep(r) /\ Authorized(req[r])
                /\ apiUsage' = Append(apiUsage, Last(apiUsage'))
                /\ Last(apiUsage').api_key_id = req[r].verifiedKey.id
                /\ Last(apiUsage').api_key_id = req[r].apiKey.id]_vars

\* C30 witness: a request that presented the second credential has been
\* authorized under it and answered, and the last usage row is its own, under
\* the id of the second credential, with rows of the first stored beside it.
C30_Witness ==
    /\ req[1].pc = "done" /\ req[1].route = "analyze" /\ Authorized(req[1])
    /\ req[1].apiKey = Identity(SeededKey(2, 95, 95, 2))
    /\ Last(req[1].dbOps) = DbOp("insert api_usage", TRUE)
    /\ Last(apiUsage).api_key_id = 2
    /\ \E i \in DOMAIN apiUsage : apiUsage[i].api_key_id = 1

====
